---- MODULE Spec2Model ----
(***************************************************************************)
(* A model of src/training/networks.py (MoStGAN-V generator and            *)
(* discriminator networks).  Tensors are modelled by their shapes (and,    *)
(* for modulated_conv2d, by small integer values); every operator below is *)
(* translated from the function or method named in its comment.            *)
(*                                                                         *)
(* Five components are modelled, each with its own state variable and its  *)
(* own specification:                                                      *)
(*   chn    the channel schedule of Generator and Discriminator (SpecChan) *)
(*   mbstd  MinibatchStdLayer.forward                          (SpecMbstd) *)
(*   mal    MAL.forward / MAL.alignment                        (SpecMAL)   *)
(*   mc     modulated_conv2d on small integer tensors          (SpecModConv)*)
(*   syn    SynthesisNetwork construction and forward          (SpecSyn)   *)
(* A component that a specification does not exercise stays at Off.        *)
(***************************************************************************)
EXTENDS Integers, Sequences, FiniteSets, TLC

VARIABLES chn, mbstd, mal, mc, syn, blk, lyr, dsc

vars == <<chn, mbstd, mal, mc, syn, blk, lyr, dsc>>

Off == [pc |-> "off"]

(***************************************************************************)
(* Bounds of the model.                                                    *)
(***************************************************************************)
\* img_resolution ranges over 4 .. 2^MaxResLog2
MaxResLog2 == 5
\* channel_base ranges over 1 .. MaxChannelBase, channel_max over 1 .. MaxChannelMax
MaxChannelBase == 40
MaxChannelMax == 6

(***************************************************************************)
(* Arithmetic and shape helpers.                                           *)
(***************************************************************************)
Min(a, b) == IF a <= b THEN a ELSE b

Max(a, b) == IF a >= b THEN a ELSE b

RECURSIVE Pow2(_)
Pow2(n) == IF n <= 0 THEN 1 ELSE 2 * Pow2(n - 1)

RECURSIVE Prod(_)
Prod(s) == IF Len(s) = 0 THEN 1 ELSE Head(s) * Prod(Tail(s))

RECURSIVE SumSeq(_)
SumSeq(s) == IF Len(s) = 0 THEN 0 ELSE Head(s) + SumSeq(Tail(s))

\* the power-of-two resolutions accepted by the constructors' assertion
\* img_resolution >= 4 and img_resolution & (img_resolution - 1) == 0
Resolutions == {Pow2(i) : i \in 2..MaxResLog2}

\* int(np.log2(img_resolution)) for a power of two
Log2(res) == CHOOSE i \in 0..(MaxResLog2 + 2) : Pow2(i) = res

(***************************************************************************)
(* The channel schedule.                                                   *)
(***************************************************************************)
\* a mutation of channels_dict: the base multiplied instead of divided
channels_dict_mul(res, channel_base, channel_max) ==
    Min(channel_base * res, channel_max)

\* channels_dict[res] = min(channel_base // res, channel_max)
channels_dict(res, channel_base, channel_max) ==
    Min(channel_base \div res, channel_max)

\* SynthesisNetwork.block_resolutions = [2 ** i for i in range(2, log2 + 1)]
block_resolutions(img_resolution) ==
    [k \in 1..(Log2(img_resolution) - 1) |-> Pow2(k + 1)]

\* Discriminator.block_resolutions = [2 ** i for i in range(log2, 2, -1)]
disc_block_resolutions(img_resolution) ==
    [k \in 1..(Log2(img_resolution) - 2) |-> Pow2(Log2(img_resolution) + 1 - k)]

\* the resolutions the Discriminator's channels_dict is built for:
\* self.block_resolutions + [4]
disc_channel_resolutions(img_resolution) ==
    Append(disc_block_resolutions(img_resolution), 4)

\* the resolutions of one side's channels_dict, in schedule order
ScheduleOf(side, img_resolution) ==
    IF side = "G" THEN block_resolutions(img_resolution)
    ELSE disc_channel_resolutions(img_resolution)

ChanInit ==
    \E cb \in 1..MaxChannelBase, cm \in 1..MaxChannelMax,
       r \in Resolutions, side \in {"G", "D"} :
        chn = [pc |-> "build", side |-> side, channel_base |-> cb,
               channel_max |-> cm, img_resolution |-> r, chans |-> <<>>]

\* one iteration of the dict comprehension: the next resolution's entry
ChannelStep ==
    /\ chn.pc = "build"
    /\ LET sched == ScheduleOf(chn.side, chn.img_resolution)
           k == Len(chn.chans) + 1
           c == channels_dict(sched[k], chn.channel_base, chn.channel_max)
           done == k = Len(sched)
       IN chn' = [chn EXCEPT !.chans = Append(@, c),
                             !.pc = IF done THEN "done" ELSE "build"]
    /\ UNCHANGED <<mbstd, mal, mc, syn, blk, lyr, dsc>>

InitChan == ChanInit /\ mbstd = Off /\ mal = Off /\ mc = Off /\ syn = Off
    /\ blk = Off /\ lyr = Off /\ dsc = Off

NextChan == ChannelStep

SpecChan == InitChan /\ [][NextChan]_vars

\* C4 as stated: channels are non-decreasing along the generator's schedule
\* (4, 8, ..., img_resolution) and non-increasing along the discriminator's
\* schedule (img_resolution, ..., 8, 4).
C4_AsStated ==
    chn.pc \in {"build", "done"} =>
        \A k \in 1..(Len(chn.chans) - 1) :
            IF chn.side = "G" THEN chn.chans[k] <= chn.chans[k + 1]
            ELSE chn.chans[k] >= chn.chans[k + 1]

\* C4 amended: min(channel_base // res, channel_max) is non-increasing as the
\* resolution increases along the generator's schedule and non-decreasing as
\* the resolution decreases along the discriminator's schedule.
C4_ChannelsMonotone ==
    chn.pc \in {"build", "done"} =>
        \A k \in 1..(Len(chn.chans) - 1) :
            IF chn.side = "G" THEN chn.chans[k] >= chn.chans[k + 1]
            ELSE chn.chans[k] <= chn.chans[k + 1]

\* a complete generator schedule of at least three blocks whose channel
\* count strictly drops, and is capped by channel_max at 4x4
C4_Witness ==
    /\ chn.pc = "done"
    /\ chn.side = "G"
    /\ Len(chn.chans) >= 3
    /\ chn.chans[1] = chn.channel_max
    /\ chn.chans[1] > chn.chans[Len(chn.chans)]

(***************************************************************************)
(* Tensor shapes.  A shape is a sequence of dimensions; an operation on    *)
(* shapes yields a result record whose err field is "none" on success and  *)
(* names the Python exception otherwise.                                   *)
(***************************************************************************)
ShapeOk(s) == [err |-> "none", shape |-> s]

ShapeErr(kind) == [err |-> kind, shape |-> <<>>]

\* an optional Python value: None, or a value v
NoneV == [none |-> TRUE, v |-> 0]

Some(x) == [none |-> FALSE, v |-> x]

\* torch.Tensor.reshape on shapes; dims may hold one -1, which is inferred
reshape(shape, dims) ==
    LET numel == Prod(shape)
        holes == {i \in 1..Len(dims) : dims[i] = -1}
        known == Prod([i \in 1..Len(dims) |-> IF dims[i] = -1 THEN 1 ELSE dims[i]])
    IN IF holes = {}
       THEN IF known = numel THEN ShapeOk(dims) ELSE ShapeErr("RuntimeError")
       ELSE IF known = 0 \/ numel % known # 0
            THEN ShapeErr("RuntimeError")
            ELSE ShapeOk([i \in 1..Len(dims) |->
                            IF dims[i] = -1 THEN numel \div known ELSE dims[i]])

\* the shape two tensors broadcast to (dimensions aligned at the right)
broadcast(a, b) ==
    LET n == Max(Len(a), Len(b))
        da(i) == IF i + Len(a) - n >= 1 THEN a[i + Len(a) - n] ELSE 1
        db(i) == IF i + Len(b) - n >= 1 THEN b[i + Len(b) - n] ELSE 1
    IN IF \A i \in 1..n : da(i) = db(i) \/ da(i) = 1 \/ db(i) = 1
       THEN ShapeOk([i \in 1..n |-> IF da(i) = 1 THEN db(i) ELSE da(i)])
       ELSE ShapeErr("RuntimeError")

\* torch.cat([a, b], dim=1) on shapes: every other dimension must agree
cat_dim1(a, b) ==
    IF Len(a) = Len(b) /\ \A i \in 1..Len(a) : i = 2 \/ a[i] = b[i]
    THEN ShapeOk([a EXCEPT ![2] = a[2] + b[2]])
    ELSE ShapeErr("RuntimeError")

(***************************************************************************)
(* MinibatchStdLayer.                                                      *)
(***************************************************************************)
\* input batch sizes range over 1 .. MaxBatch
MaxBatch == 4
\* input channel counts range over 1 .. MaxChan
MaxChan == 4
\* input heights and widths range over 1 .. MaxSide
MaxSide == 2
\* group_size ranges over None and 0 .. MaxGroupSize
MaxGroupSize == 3
\* num_channels ranges over 0 .. MaxNumChannels
MaxNumChannels == 3

\* G = min(group_size, N) if group_size is not None else N
mbstd_G(group_size, N) == IF group_size.none THEN N ELSE Min(group_size.v, N)

\* a mutation of MinibatchStdLayer.forward: the group size is not capped by
\* the batch size
MinibatchStdLayer_forward_nocap(group_size, num_channels, x) ==
    LET N == x[1]
        C == x[2]
        H == x[3]
        W == x[4]
        G == IF group_size.none THEN N ELSE group_size.v
        F == num_channels
    IN IF F = 0 THEN ShapeErr("ZeroDivisionError")
       ELSE LET y1 == reshape(x, <<G, -1, F, C \div F, H, W>>)
            IN IF y1.err # "none" THEN y1
               ELSE cat_dim1(x, <<G * y1.shape[2], F, H, W>>)

\* MinibatchStdLayer.forward on the shape x = <<N, C, H, W>>
MinibatchStdLayer_forward(group_size, num_channels, x) ==
    LET N == x[1]
        C == x[2]
        H == x[3]
        W == x[4]
        G == mbstd_G(group_size, N)
        F == num_channels
    IN IF F = 0 THEN ShapeErr("ZeroDivisionError")          \* c = C // F
       ELSE LET c == C \div F
                \* y = x.reshape(G, -1, F, c, H, W)
                y1 == reshape(x, <<G, -1, F, c, H, W>>)
            IN IF y1.err # "none" THEN y1
               ELSE LET n == y1.shape[2]
                        \* y - y.mean(dim=0); square().mean(dim=0): [nFcHW]
                        y2 == <<n, F, c, H, W>>
                        \* mean(dim=[2,3,4]): [nF]
                        y3 == <<y2[1], y2[2]>>
                        \* reshape(-1, F, 1, 1): [nF11]
                        y4 == reshape(y3, <<-1, F, 1, 1>>)
                        \* repeat(G, 1, H, W)
                        y5 == <<y4.shape[1] * G, y4.shape[2], y4.shape[3] * H,
                                y4.shape[4] * W>>
                    IN IF y4.err # "none" THEN y4
                       ELSE cat_dim1(x, y5)                \* torch.cat([x, y], dim=1)

GroupSizes == {NoneV} \cup {Some(g) : g \in 0..MaxGroupSize}

\* MinibatchStdLayer.__init__
MbstdInit ==
    \E g \in GroupSizes, f \in 0..MaxNumChannels :
        mbstd = [pc |-> "ready", group_size |-> g, num_channels |-> f,
                 x |-> <<>>, out |-> ShapeOk(<<>>)]

\* one call of MinibatchStdLayer.forward
MbstdForward ==
    /\ mbstd.pc = "ready"
    /\ \E N \in 1..MaxBatch, C \in 1..MaxChan, H \in 1..MaxSide, W \in 1..MaxSide :
          mbstd' = [mbstd EXCEPT
                      !.pc = "done",
                      !.x = <<N, C, H, W>>,
                      !.out = MinibatchStdLayer_forward(mbstd.group_size,
                                                        mbstd.num_channels,
                                                        <<N, C, H, W>>)]
    /\ UNCHANGED <<chn, mal, mc, syn, blk, lyr, dsc>>

InitMbstd == MbstdInit /\ chn = Off /\ mal = Off /\ mc = Off /\ syn = Off
    /\ blk = Off /\ lyr = Off /\ dsc = Off

NextMbstd == MbstdForward

SpecMbstd == InitMbstd /\ [][NextMbstd]_vars

MbstdReturned == mbstd.pc = "done" /\ mbstd.out.err = "none"

MaxBsz == 2
\* the motion map has 1 .. MaxFrames channels (frames)
MaxFrames == 3
\* similarities are multiples of 1/SimScale
SimScale == 1

\* the first n dimensions of a shape
Prefix(s, n) == SubSeq(s, 1, n)

\* MAL.forward_spatial_temporal, on shapes
forward_spatial_temporal(predict, target) ==
    LET target_att == Prefix(target, 2)              \* softmax(target.sum(-1))
        prod == broadcast(predict, target)           \* pre_norm * target_norm
    IN IF prod.err # "none" THEN prod
       ELSE LET sim == Prefix(prod.shape, 2)         \* .sum(-1)
                att == broadcast(sim, target_att)    \* sim * target_att
            IN IF att.err # "none" THEN att
               ELSE ShapeOk(Prefix(att.shape, 1))    \* .sum(-1)

\* MAL.forward_temporal, on shapes
forward_temporal(predict, target) ==
    LET pre_score == Prefix(predict, 2)              \* predict.sum(-1)
        motion_score == Prefix(target, 2)            \* target.sum(-1)
        prod == broadcast(pre_score, motion_score)
    IN IF prod.err # "none" THEN prod
       ELSE ShapeOk(Prefix(prod.shape, 1))           \* .sum(-1)

\* MAL.forward_spatial, on shapes
forward_spatial(predict, target) ==
    LET pre == <<predict[1], predict[3]>>            \* predict.mean(1)
        tgt == <<target[1], target[3]>>              \* target.mean(1)
        prod == broadcast(pre, tgt)
    IN IF prod.err # "none" THEN prod
       ELSE ShapeOk(Prefix(prod.shape, 1))           \* .sum(-1)

MalErr(kind, t) ==
    [err |-> kind, t |-> t, loss_spa_temp |-> 0, loss_tempo |-> 0,
     loss_spa |-> 0, loss_mal |-> 0, called |-> {}]

\* a mutation of the branch "if t > 1" of MAL.alignment: "if t >= 1"
mal_temporal_branch_ge(t) == t >= 1

\* the branch condition "if t > 1" of MAL.alignment
mal_temporal_branch(t) == t > 1

\* MAL.alignment: gradient and target are shapes, sims the three mean
\* similarities the three forward_* functions evaluate to
alignment(bsz, gradient, target, sims) ==
    LET b == gradient[1]
        c == gradient[2]
        h == gradient[3]
        w == gradient[4]
        t == b \div bsz
        \* gradient.reshape(-1, t, c, h, w).permute(0, 2, 1, 3, 4)
        g1 == reshape(gradient, <<-1, t, c, h, w>>)
    IN IF g1.err # "none" THEN MalErr(g1.err, t)
       ELSE
       LET g2 == <<g1.shape[1], c, t, h, w>>
           \* F.adaptive_avg_pool3d(gradient, (t, 1, 1))
           weight == <<g2[1], g2[2], t, 1, 1>>
           weight_predict == broadcast(weight, g2)
           \* relu(weight_predict.sum(1))
           predict0 == <<g2[1], t, h, w>>
           \* predict.reshape(self.bsz, t, -1)
           predict == reshape(predict0, <<bsz, t, -1>>)
       IN IF predict.err # "none" THEN MalErr(predict.err, t)
          ELSE
          LET temporal == mal_temporal_branch(t)
              st == IF temporal THEN forward_spatial_temporal(predict.shape, target)
                    ELSE ShapeOk(<<>>)
              tm == IF temporal THEN forward_temporal(predict.shape, target)
                    ELSE ShapeOk(<<>>)
              sp == forward_spatial(predict.shape, target)
              \* loss_spa_temp = (1 - sim_spa_temp).mean(), else 0.0
              loss_spa_temp == IF temporal THEN SimScale - sims.spa_temp ELSE 0
              \* loss_tempo = (1 - sim_tempo).mean(), else 0.0
              loss_tempo == IF temporal THEN SimScale - sims.tempo ELSE 0
              \* loss_spa = dis_spa.mean()
              loss_spa == sims.spa
          IN IF st.err # "none" THEN MalErr(st.err, t)
             ELSE IF tm.err # "none" THEN MalErr(tm.err, t)
             ELSE IF sp.err # "none" THEN MalErr(sp.err, t)
             ELSE [err |-> "none", t |-> t,
                   loss_spa_temp |-> loss_spa_temp,
                   loss_tempo |-> loss_tempo,
                   loss_spa |-> loss_spa,
                   \* loss_mal = loss_spa_temp + loss_spa + loss_tempo
                   loss_mal |-> loss_spa_temp + loss_spa + loss_tempo,
                   called |-> (IF temporal
                               THEN {"forward_spatial_temporal", "forward_temporal"}
                               ELSE {}) \cup {"forward_spatial"}]

\* MAL.forward: the motion map is resized to the gradient map's height and
\* width, reshaped to (bsz, channels, -1) and aligned
MAL_forward(bsz, grad_map, motion_map, sims) ==
    LET \* F.interpolate(motion_map, (grad_shape[-2], grad_shape[-1]))
        resized == <<motion_map[1], motion_map[2], grad_map[3], grad_map[4]>>
        st_map == reshape(resized, <<bsz, motion_map[2], -1>>)
    IN IF st_map.err # "none" THEN MalErr(st_map.err, grad_map[1] \div bsz)
       ELSE alignment(bsz, grad_map, st_map.shape, sims)

SimVals == (0 - SimScale)..SimScale

\* MAL.__init__(batch_size)
MalInit ==
    \E bsz \in 1..MaxBsz :
        mal = [pc |-> "ready", bsz |-> bsz, grad_map |-> <<>>,
               motion_map |-> <<>>, out |-> MalErr("none", 0)]

\* one call of MAL.forward(grad_map, motion_map)
MalForward ==
    /\ mal.pc = "ready"
    /\ \E b \in 1..MaxBatch, c \in 1..MaxSide, h \in 1..MaxSide, w \in 1..MaxSide,
          bm \in 1..MaxBsz, cm \in 1..MaxFrames,
          s1 \in SimVals, s2 \in SimVals, s3 \in SimVals :
          mal' = [mal EXCEPT
                    !.pc = "done",
                    !.grad_map = <<b, c, h, w>>,
                    !.motion_map = <<bm, cm, h, w>>,
                    !.out = MAL_forward(mal.bsz, <<b, c, h, w>>, <<bm, cm, h, w>>,
                                        [spa_temp |-> s1, tempo |-> s2, spa |-> s3])]
    /\ UNCHANGED <<chn, mbstd, mc, syn, blk, lyr, dsc>>

InitMAL == MalInit /\ chn = Off /\ mbstd = Off /\ mc = Off /\ syn = Off
    /\ blk = Off /\ lyr = Off /\ dsc = Off

NextMAL == MalForward

SpecMAL == InitMAL /\ [][NextMAL]_vars

MalReturned == mal.pc = "done" /\ mal.out.err = "none"

\* C8: in MAL.alignment, when t = b // batch_size is 1 the spatio-temporal
\* and temporal terms are exactly zero and the loss is the spatial term
\* alone; when t > 1 all three terms are computed and summed.
C8_SingleFrameLoss ==
    MalReturned =>
        LET t == mal.grad_map[1] \div mal.bsz
        IN /\ t = 1 =>
                /\ mal.out.loss_spa_temp = 0
                /\ mal.out.loss_tempo = 0
                /\ mal.out.loss_mal = mal.out.loss_spa
                /\ mal.out.called = {"forward_spatial"}
           /\ t > 1 =>
                /\ mal.out.called = {"forward_spatial_temporal", "forward_temporal",
                                     "forward_spatial"}
                /\ mal.out.loss_mal = mal.out.loss_spa_temp + mal.out.loss_spa
                                        + mal.out.loss_tempo
           /\ t >= 1

\* a single-frame call (t = 1) that returned a non-zero spatial term
C8_Witness ==
    /\ MalReturned
    /\ mal.grad_map[1] \div mal.bsz = 1
    /\ mal.bsz = 2
    /\ mal.out.loss_spa # 0
    /\ mal.out.loss_mal = mal.out.loss_spa

(***************************************************************************)
(* modulated_conv2d on values.  Feature maps are 1x1 and kernels 1x1, so a *)
(* tensor [N, C, 1, 1] is a matrix of N rows and C columns over the        *)
(* integers and the convolution is a dot product over the input channels.  *)
(* x is float32 (the FP16 pre-normalisation of lines 58-62 does not run).  *)
(* A demodulated value num * rsqrt(d + 1e-8) is kept as the pair (num, d). *)
(***************************************************************************)
\* tensor entries are 1 + ((seed + row + column) % 2), seed in 0 .. MaxSeed
MaxSeed == 1

Mat(rows, cols, seed) ==
    [r \in 1..rows |-> [c \in 1..cols |-> 1 + ((seed + r + c) % 2)]]

\* the entries of a matrix in row-major (memory) order
Flatten(m) ==
    LET cols == Len(m[1])
    IN [k \in 1..(Len(m) * cols) |-> m[((k - 1) \div cols) + 1][((k - 1) % cols) + 1]]

\* styles.reshape(batch_size, 1, -1, 1, 1) and styles.reshape(batch_size, -1, 1, 1):
\* the style regrouped in batch_size rows
style_reshape(style, batch_size) ==
    LET flat == Flatten(style)
        r == reshape(<<Len(style), Len(style[1])>>, <<batch_size, -1>>)
    IN IF r.err # "none" THEN [err |-> r.err, m |-> <<>>]
       ELSE [err |-> "none",
             m |-> [n \in 1..batch_size |->
                      [k \in 1..r.shape[2] |-> flat[(n - 1) * r.shape[2] + k]]]]

\* weight.unsqueeze(0) * styles.reshape(batch_size, 1, -1, 1, 1): [NOIkk].
\* The inputs drawn here keep the style's width K <= in_channels, so the two
\* broadcast exactly when K = in_channels or K = 1.
styled_weight(weight, style, batch_size) ==
    LET s == style_reshape(style, batch_size)
        I == Len(weight[1])
    IN IF s.err # "none" THEN [err |-> s.err, w |-> <<>>]
       ELSE IF Len(s.m[1]) # I /\ Len(s.m[1]) # 1
       THEN [err |-> "RuntimeError", w |-> <<>>]
       ELSE [err |-> "none",
             w |-> [n \in 1..batch_size |->
                      [o \in 1..Len(weight) |->
                         [i \in 1..I |->
                            weight[o][i] * s.m[n][IF Len(s.m[1]) = 1 THEN 1 ELSE i]]]]]

\* training.layers.tensor_modulation_word(w, style_m): the style-scaled
\* weight combined with the word modulation; here the modulation is one
\* factor per sample and input channel, and sim their sum
tensor_modulation_word(w, style_m) ==
    [w |-> [n \in 1..Len(w) |->
              [o \in 1..Len(w[n]) |->
                 [i \in 1..Len(w[n][o]) |-> w[n][o][i] * style_m[n][i]]]],
     sim |-> SumSeq(Flatten(style_m))]

\* w.square().sum(dim=[2, 3, 4]): the squared norm under the rsqrt, [NO]
dcoefs_sq(w) ==
    [n \in 1..Len(w) |->
       [o \in 1..Len(w[n]) |-> SumSeq([i \in 1..Len(w[n][o]) |-> w[n][o][i] * w[n][o][i]])]]

McErr(kind, ops) == [err |-> kind, out |-> <<>>, sim |-> 0, ops |-> ops]

NoiseOf(noise) == IF noise.none THEN 0 ELSE noise.v

\* the branch "if not fused_modconv" of modulated_conv2d (lines 82-93)
modconv_unfused(x, weight, style, d, noise, demodulate, sim, ops) ==
    LET batch_size == Len(x)
        I == Len(weight[1])
        \* x = x * styles.to(x.dtype).reshape(batch_size, -1, 1, 1)
        s == IF style.none THEN [err |-> "none", m |-> <<>>]
             ELSE style_reshape(style.v, batch_size)
    IN IF s.err # "none" THEN McErr(s.err, ops)
       ELSE IF ~style.none /\ Len(s.m[1]) # I /\ Len(s.m[1]) # 1
       THEN McErr("RuntimeError", ops)
       ELSE LET xs == IF style.none THEN x
                      ELSE [n \in 1..batch_size |-> [i \in 1..I |->
                              x[n][i] * s.m[n][IF Len(s.m[1]) = 1 THEN 1 ELSE i]]]
                \* conv2d_resample(x=x, w=weight.to(x.dtype), ...)
                y == [n \in 1..batch_size |-> [o \in 1..Len(weight) |->
                        SumSeq([i \in 1..I |-> xs[n][i] * weight[o][i]])]]
            IN [err |-> "none",
                \* fma(x, dcoefs, noise), x * dcoefs, or x.add_(noise)
                out |-> [n \in 1..batch_size |-> [o \in 1..Len(weight) |->
                           [num |-> y[n][o],
                            demod |-> demodulate,
                            d |-> IF demodulate THEN d[n][o] ELSE 0,
                            noise |-> NoiseOf(noise)]]],
                sim |-> sim,
                ops |-> ops \o (IF style.none THEN <<>> ELSE <<"x*styles">>)
                            \o <<"conv2d">>]

\* the fused branch of modulated_conv2d (lines 95-106): one grouped
\* convolution in which sample n is convolved with its own weight w[n]
modconv_fused(x, w, d, noise, demodulate, sim, ops) ==
    LET batch_size == Len(x)
    IN [err |-> "none",
        out |-> [n \in 1..batch_size |-> [o \in 1..Len(w[n]) |->
                   [num |-> SumSeq([i \in 1..Len(w[n][o]) |-> x[n][i] * w[n][o][i]]),
                    demod |-> demodulate,
                    \* w = w * dcoefs.reshape(batch_size, -1, 1, 1, 1)
                    d |-> IF demodulate THEN d[n][o] ELSE 0,
                    noise |-> NoiseOf(noise)]]],
        sim |-> sim,
        ops |-> ops \o <<"conv2d">>]

\* modulated_conv2d(x, weight, styles, noise, demodulate, fused_modconv);
\* weight is [ndim, m], styles the pair <<styles, style_m>> of optional
\* matrices.  ops lists the multiplications and convolutions performed.
modulated_conv2d(x, weight, styles, noise, demodulate, fused_modconv) ==
    IF weight.ndim # 4
    THEN McErr("ValueError", <<>>)          \* out_channels, in_channels, kh, kw = weight.shape
    ELSE IF Len(x[1]) # Len(weight.m[1])
    THEN McErr("AssertionError", <<>>)      \* misc.assert_shape(x, [batch_size, in_channels, None, None])
    ELSE
    LET batch_size == Len(x)
        style == styles[1]
        style_m == styles[2]
        needw == demodulate \/ fused_modconv
        \* w = weight.unsqueeze(0) * styles.reshape(batch_size, 1, -1, 1, 1)
        sw == IF needw /\ ~style.none THEN styled_weight(weight.m, style.v, batch_size)
              ELSE [err |-> "none", w |-> <<>>]
    IN IF needw /\ style.none /\ style_m.none
       THEN McErr("AttributeError", <<>>)   \* styles.reshape with styles None
       ELSE IF sw.err # "none" THEN McErr(sw.err, <<>>)
       ELSE
       LET mw == IF needw /\ ~style_m.none
                 THEN tensor_modulation_word(sw.w, style_m.v)
                 ELSE [w |-> sw.w, sim |-> 0]
           ops == (IF needw THEN <<"weight*styles">> ELSE <<>>)
                  \o (IF needw /\ ~style_m.none THEN <<"tensor_modulation_word">> ELSE <<>>)
           d == IF demodulate THEN dcoefs_sq(mw.w) ELSE <<>>
       IN IF ~fused_modconv
          THEN modconv_unfused(x, weight.m, style, d, noise, demodulate, mw.sim, ops)
          ELSE modconv_fused(x, mw.w, d, noise, demodulate, mw.sim, ops)

\* the styles a call may pass: none at all, or a global style of shape
\* (N, Cin), (N, 1) or (1, Cin), with or without a word modulation
McStyles(N, Cin) ==
    {<<NoneV, NoneV>>}
    \cup {<<Some(Mat(sh[1], sh[2], seed)), sm>> :
            sh \in {<<N, Cin>>, <<N, 1>>, <<1, Cin>>},
            seed \in 0..MaxSeed,
            sm \in {NoneV} \cup {Some(Mat(N, Cin, sd)) : sd \in 0..MaxSeed}}

NotRun == McErr("not run", <<>>)

\* the arguments of one call
McInit ==
    \E N \in 1..MaxBsz, Cin \in 1..MaxSide, Cout \in 1..MaxSide,
       Cx \in 1..(MaxSide + 1), ndim \in {3, 4}, sx \in 0..MaxSeed, sw \in 0..MaxSeed,
       noise \in {NoneV, Some(1)}, demodulate \in BOOLEAN :
       /\ Cx \in {Cin, Cin + 1}
       /\ \E st \in McStyles(N, Cin) :
            mc = [pc |-> "ready",
                  x |-> Mat(N, Cx, sx),
                  weight |-> [ndim |-> ndim, m |-> Mat(Cout, Cin, sw)],
                  styles |-> st,
                  noise |-> noise,
                  demodulate |-> demodulate,
                  fused |-> NotRun,
                  unfused |-> NotRun]

\* modulated_conv2d(..., fused_modconv=True)
McCallFused ==
    /\ mc.pc = "ready"
    /\ mc.fused = NotRun
    /\ mc' = [mc EXCEPT !.fused = modulated_conv2d(mc.x, mc.weight, mc.styles,
                                                   mc.noise, mc.demodulate, TRUE)]
    /\ UNCHANGED <<chn, mbstd, mal, syn, blk, lyr, dsc>>

\* modulated_conv2d(..., fused_modconv=False)
McCallUnfused ==
    /\ mc.pc = "ready"
    /\ mc.unfused = NotRun
    /\ mc' = [mc EXCEPT !.unfused = modulated_conv2d(mc.x, mc.weight, mc.styles,
                                                     mc.noise, mc.demodulate, FALSE)]
    /\ UNCHANGED <<chn, mbstd, mal, syn, blk, lyr, dsc>>

InitModConv == McInit /\ chn = Off /\ mbstd = Off /\ mal = Off /\ syn = Off
    /\ blk = Off /\ lyr = Off /\ dsc = Off

NextModConv == McCallFused \/ McCallUnfused

SpecModConv == InitModConv /\ [][NextModConv]_vars

\* C5: for every input, weight and style pair (global style, word
\* modulation or none), the fused and the unfused call with equal demodulate
\* and noise return the same output.
C5_FusedEqualsUnfused ==
    (mc.pc = "ready" /\ mc.fused # NotRun /\ mc.unfused # NotRun
        /\ ~mc.styles[1].none) =>
        /\ mc.fused.err = mc.unfused.err
        /\ mc.fused.out = mc.unfused.out

McStyleShapeOk ==
    /\ ~mc.styles[1].none
    /\ Len(mc.styles[1].v) = Len(mc.x)
    /\ Len(mc.styles[1].v[1]) = Len(mc.weight.m[1])

McShapesConsistent ==
    /\ mc.weight.ndim = 4
    /\ Len(mc.x[1]) = Len(mc.weight.m[1])
    /\ McStyleShapeOk

\* C9: every call whose weight, input or style shapes are inconsistent is
\* rejected before any multiplication or convolution is performed.
C9_ShapeMismatchRejected ==
    (mc.pc = "ready" /\ ~McShapesConsistent /\ ~mc.styles[1].none) =>
        /\ mc.fused # NotRun => (mc.fused.err # "none" /\ mc.fused.ops = <<>>)
        /\ mc.unfused # NotRun => (mc.unfused.err # "none" /\ mc.unfused.ops = <<>>)

(***************************************************************************)
(* The synthesis network on shapes.  A tensor is its shape; an optional    *)
(* tensor is NoneV or Some(shape).                                         *)
(***************************************************************************)
\* representative sizes of the free dimensions
WDim == 2
ImgChannels == 3
MotionDim == 2
Rank == 2
\* cfg.motion_num is 0 (no motion words) or MotionNum
MotionNum == 1
\* cfg.motion.v_dim is 0 (no motion encoder) or VDim
VDim == 1
\* a call has 1 .. MaxSynBatch samples and 1 .. MaxSynFrames timestamps each
MaxSynBatch == 2
MaxSynFrames == 2

\* the defaults of SynthesisNetwork.__init__
channel_base_default == 32768
channel_max_default == 512

\* misc.assert_shape(tensor, pattern): the number of dimensions and every
\* dimension that is not a wildcard (None, written -1) must match
assert_shape(shape, pattern) ==
    /\ Len(shape) = Len(pattern)
    /\ \A i \in 1..Len(pattern) : pattern[i] = -1 \/ pattern[i] = shape[i]

\* FullyConnectedLayer(in_features, out_features) applied to a tensor whose
\* last dimension must be in_features
fully_connected(shape, in_features, out_features) ==
    IF Len(shape) >= 1 /\ shape[Len(shape)] = in_features
    THEN ShapeOk([shape EXCEPT ![Len(shape)] = out_features])
    ELSE ShapeErr("RuntimeError")

\* conv2d_resample.conv2d_resample(x, w, up, padding): the output of a
\* convolution of kernel size k after upsampling by up, padding with respect
\* to the upsampled image
conv2d_resample(x, out_channels, k, up, padding) ==
    <<x[1], out_channels, x[3] * up + 2 * padding - (k - 1),
      x[4] * up + 2 * padding - (k - 1)>>

\* a step of a chain of tensor operations: r is the result so far
then_broadcast(a, r) == IF r.err # "none" THEN r ELSE broadcast(a, r.shape)

then_fully_connected(r, in_features, out_features) ==
    IF r.err # "none" THEN r ELSE fully_connected(r.shape, in_features, out_features)

\* the unfused convolution of the scaled activations xs with the base weight
modconv_unfused_shapes(xs, weight, up, padding) ==
    IF xs.err # "none" THEN xs
    ELSE IF xs.shape[2] # weight[2] THEN ShapeErr("RuntimeError")
    ELSE ShapeOk(conv2d_resample(xs.shape, weight[1], weight[3], up, padding))

\* modulated_conv2d after the per-sample weights w were computed
modconv_execute_shapes(w, x, weight, styles, up, padding, fused_modconv) ==
    IF w.err # "none" THEN w
    ELSE IF fused_modconv
    THEN ShapeOk(conv2d_resample(x, weight[1], weight[3], up, padding))
    ELSE modconv_unfused_shapes(
            \* x * styles.to(x.dtype).reshape(batch_size, -1, 1, 1)
            IF styles.none THEN ShapeOk(x)
            ELSE then_broadcast(x, reshape(styles.v, <<x[1], -1, 1, 1>>)),
            weight, up, padding)

\* modulated_conv2d on shapes: x a shape, weight the shape [O, I, kh, kw],
\* styles and style_m optional shapes
modulated_conv2d_shapes(x, weight, styles, style_m, up, padding, demodulate, fused_modconv) ==
    IF ~assert_shape(x, <<x[1], weight[2], -1, -1>>)
    THEN ShapeErr("AssertionError")
    ELSE IF (demodulate \/ fused_modconv) /\ style_m.none /\ styles.none
    THEN ShapeErr("AttributeError")       \* styles.reshape with styles None
    ELSE modconv_execute_shapes(
            \* weight.unsqueeze(0) * styles.reshape(batch_size, 1, -1, 1, 1)
            IF (demodulate \/ fused_modconv) /\ ~styles.none
            THEN then_broadcast(<<1>> \o weight,
                                reshape(styles.v, <<x[1], 1, -1, 1, 1>>))
            ELSE ShapeOk(<<>>),
            x, weight, styles, up, padding, fused_modconv)

\* a mutation of the condition guarding self.affine and style_z: the affine
\* style is always used
layer_uses_style_always(cfg, word_mod) == TRUE

\* "self.cfg.style_z or not self.word_mod": the layer has an affine layer
\* (line 141) and uses its output as the global style (line 162)
layer_uses_style(cfg, word_mod) == cfg.style_z \/ ~word_mod

\* "self.cfg.word_mod and self.word_mod": the layer has a hypernetwork
\* (line 154) and uses its output as the word modulation (line 164)
layer_uses_words(cfg, word_mod) == cfg.word_mod /\ word_mod

\* SynthesisLayer.__init__
SynthesisLayer_init(cfg, in_channels, out_channels, w_dim, resolution, up, word_mod) ==
    [in_channels |-> in_channels, out_channels |-> out_channels, w_dim |-> w_dim,
     resolution |-> resolution, up |-> up, kernel_size |-> 3, padding |-> 3 \div 2,
     word_mod |-> word_mod,
     weight |-> <<out_channels, in_channels, 3, 3>>,
     has_affine |-> layer_uses_style(cfg, word_mod),
     has_hypernet |-> layer_uses_words(cfg, word_mod)]

LayerErr(kind) == [err |-> kind, x |-> <<>>, style_z |-> FALSE, style_m |-> FALSE]

\* style_m.reshape(-1, n_words, rank, style_m.shape[-1] // rank)
then_reshape_words(r, n_words) ==
    IF r.err # "none" THEN r
    ELSE reshape(r.shape, <<-1, n_words, Rank, r.shape[Len(r.shape)] \div Rank>>)

\* style_m = self.hypernet(c.reshape(-1, motion_dim)), reshaped per word
hypernet_styles(layer, c) ==
    then_reshape_words(
        then_fully_connected(reshape(c, <<-1, MotionDim>>), MotionDim,
                             Rank * (layer.in_channels + 2 * layer.kernel_size)),
        c[2])

\* the result of SynthesisLayer.forward from that of modulated_conv2d
\* (bias_act keeps the shape)
layer_result(y, use_z, use_m) ==
    IF y.err # "none" THEN LayerErr(y.err)
    ELSE [err |-> "none", x |-> y.shape, style_z |-> use_z, style_m |-> use_m]

\* SynthesisLayer.forward after the two styles were computed
layer_modconv(layer, x, fused_modconv, style_z, style_m, use_z, use_m) ==
    IF style_z.err # "none" THEN LayerErr(style_z.err)
    ELSE IF style_m.err # "none" THEN LayerErr(style_m.err)
    ELSE layer_result(
            modulated_conv2d_shapes(
                x, layer.weight,
                IF use_z THEN Some(style_z.shape) ELSE NoneV,
                IF use_m THEN Some(style_m.shape) ELSE NoneV,
                layer.up, layer.padding, TRUE, fused_modconv),
            use_z, use_m)

\* SynthesisLayer.forward(x, w, c, fused_modconv): x and w shapes, c an
\* optional shape; the result records which of the two styles were passed
\* to modulated_conv2d
SynthesisLayer_forward(cfg, layer, x, w, c, fused_modconv) ==
    IF ~assert_shape(x, <<-1, layer.weight[2], layer.resolution \div layer.up,
                          layer.resolution \div layer.up>>)
    THEN LayerErr("AssertionError")
    ELSE layer_modconv(
            layer, x, fused_modconv,
            \* style_z = self.affine(w) if self.cfg.style_z or not self.word_mod else None
            IF ~layer_uses_style(cfg, layer.word_mod) THEN ShapeOk(<<>>)
            ELSE IF ~layer.has_affine THEN ShapeErr("AttributeError")
            ELSE fully_connected(w, layer.w_dim, layer.in_channels),
            \* if self.cfg.word_mod and self.word_mod: style_m = ... else None
            IF ~layer_uses_words(cfg, layer.word_mod) THEN ShapeOk(<<>>)
            ELSE IF ~layer.has_hypernet \/ c.none THEN ShapeErr("AttributeError")
            ELSE hypernet_styles(layer, c.v),
            layer_uses_style(cfg, layer.word_mod),
            layer_uses_words(cfg, layer.word_mod))

\* ToRGBLayer.forward after styles = self.affine(w) * self.weight_gain
torgb_modconv(styles, in_channels, out_channels, x, fused_modconv) ==
    IF styles.err # "none" THEN styles
    ELSE modulated_conv2d_shapes(x, <<out_channels, in_channels, 1, 1>>,
                                 Some(styles.shape), NoneV, 1, 0, FALSE,
                                 fused_modconv)

\* ToRGBLayer.forward(x, w, fused_modconv), kernel_size 1, demodulate=False
ToRGBLayer_forward(in_channels, out_channels, w_dim, x, w, fused_modconv) ==
    torgb_modconv(fully_connected(w, w_dim, in_channels), in_channels,
                  out_channels, x, fused_modconv)

\* GenInput(cfg, channel_dim).total_dim: the channels of the learned input
GenInput_total_dim(channel_dim) == channel_dim

\* GenInput.forward(batch_size, ...): the learned 4x4 input, one per sample
GenInput_forward(batch_size, total_dim) == <<batch_size, total_dim, 4, 4>>

\* a mutation of the ToRGB condition: only the last block has a ToRGB layer
block_has_torgb_last_only(architecture, is_last) == is_last

\* "if is_last or architecture == 'skip'": the block has a ToRGB layer
\* (SynthesisBlock.__init__) and runs it (SynthesisBlock.forward)
block_has_torgb(architecture, is_last) == is_last \/ architecture = "skip"

\* SynthesisBlock.__init__
SynthesisBlock_init(cfg, in_channels, out_channels, w_dim, resolution, img_channels, is_last, use_fp16, word_mod) ==
    LET first == in_channels = 0
        conv1_in_channels == IF first THEN GenInput_total_dim(out_channels)
                             ELSE out_channels
        torgb == block_has_torgb(cfg.architecture, is_last)
    IN [in_channels |-> in_channels, out_channels |-> out_channels,
        w_dim |-> w_dim, resolution |-> resolution, img_channels |-> img_channels,
        is_last |-> is_last, architecture |-> cfg.architecture,
        use_fp16 |-> use_fp16, word_mod |-> word_mod,
        input_total_dim |-> conv1_in_channels,
        has_conv0 |-> ~first,
        conv0 |-> SynthesisLayer_init(cfg, in_channels, out_channels, w_dim,
                                      resolution, 2, word_mod),
        conv1 |-> SynthesisLayer_init(cfg, conv1_in_channels, out_channels, w_dim,
                                      resolution, 1, word_mod),
        num_conv |-> (IF first THEN 0 ELSE 1) + 1,
        has_torgb |-> torgb,
        num_torgb |-> IF torgb THEN 1 ELSE 0,
        has_skip |-> ~first /\ cfg.architecture = "resnet"]

\* the ToRGB part of a block's result: whether the layer ran, the position
\* in w_iter of the style it took and the fused_modconv it was given
NoTorgb == [ran |-> FALSE, w_index |-> 0, fused |-> FALSE]

BlockErr(kind, layers) ==
    [err |-> kind, x |-> NoneV, img |-> NoneV, layers |-> layers, torgb |-> NoTorgb,
     x_dtype |-> "none", img_dtype |-> "none"]

\* the record of one SynthesisLayer call that returned: pos is the position
\* in w_iter and in m_iter of the entries it was given
LayerRun(block, name, r, pos, fused_modconv) ==
    [res |-> block.resolution, layer |-> name, word_mod |-> block.word_mod,
     style_z |-> r.style_z, style_m |-> r.style_m,
     w_index |-> pos, m_index |-> pos, fused |-> fused_modconv]

\* a mutation of unbind: the tensor is unbound along dimension 0
unbind_dim0(shape) == [n |-> shape[1], item |-> Tail(shape)]

\* tensor.unbind(dim=1) as an iterable: n tensors of the same shape
unbind(shape) ==
    [n |-> shape[2], item |-> <<shape[1]>> \o SubSeq(shape, 3, Len(shape))]

\* next(it) at position pos (counted from 0) yields an entry
iter_has(it, pos) == pos < it.n

\* img = upfirdn2d.upsample2d(img, self.resample_filter) if img is not None
upsample2d_opt(img) ==
    IF img.none THEN NoneV
    ELSE Some(<<img.v[1], img.v[2], 2 * img.v[3], 2 * img.v[4]>>)

\* the end of SynthesisBlock.forward: y = y.to(torch.float32);
\* img = img.add_(y) if img is not None else y; the two dtype asserts
block_return(block, x, log, img_up, rgb, tpos, fused_modconv, dtype) ==
    IF rgb.err # "none" THEN BlockErr(rgb.err, log)
    ELSE IF block_has_torgb(block.architecture, block.is_last) /\ ~img_up.none
            /\ broadcast(img_up.v, rgb.shape) # ShapeOk(img_up.v)
    THEN BlockErr("RuntimeError", log)
    ELSE [err |-> "none", x |-> Some(x),
          img |-> IF block_has_torgb(block.architecture, block.is_last) /\ img_up.none
                  THEN Some(rgb.shape) ELSE img_up,
          layers |-> log,
          torgb |-> IF block_has_torgb(block.architecture, block.is_last)
                    THEN [ran |-> TRUE, w_index |-> tpos, fused |-> fused_modconv]
                    ELSE NoTorgb,
          x_dtype |-> dtype,
          img_dtype |-> IF ~block_has_torgb(block.architecture, block.is_last)
                           /\ img_up.none
                        THEN "none" ELSE "float32"]

\* SynthesisBlock.forward after conv1, which took position p1 of the
\* iterators: the residual sum and the ToRGB part
block_torgb(block, img, w, fused_modconv, dtype, x0, log0, r1, p1) ==
    IF r1.err # "none" THEN BlockErr(r1.err, log0)
    \* y = self.skip(x, gain=np.sqrt(0.5)), a 1x1 convolution with up=2; x = y.add_(x)
    ELSE IF block.has_skip
            /\ broadcast(conv2d_resample(x0, block.out_channels, 1, 2, 0), r1.x)
               # ShapeOk(conv2d_resample(x0, block.out_channels, 1, 2, 0))
    THEN BlockErr("RuntimeError",
                  log0 \o <<LayerRun(block, "conv1", r1, p1, fused_modconv)>>)
    ELSE IF ~img.none
            /\ ~assert_shape(img.v, <<-1, block.img_channels, block.resolution \div 2,
                                      block.resolution \div 2>>)
    THEN BlockErr("AssertionError",
                  log0 \o <<LayerRun(block, "conv1", r1, p1, fused_modconv)>>)
    ELSE IF block_has_torgb(block.architecture, block.is_last) /\ ~iter_has(w, p1 + 1)
    THEN BlockErr("StopIteration",
                  log0 \o <<LayerRun(block, "conv1", r1, p1, fused_modconv)>>)
    ELSE block_return(block, r1.x,
                      log0 \o <<LayerRun(block, "conv1", r1, p1, fused_modconv)>>,
                      upsample2d_opt(img),
                      IF block_has_torgb(block.architecture, block.is_last)
                      THEN ToRGBLayer_forward(block.out_channels, block.img_channels,
                                              block.w_dim, r1.x, w.item, fused_modconv)
                      ELSE ShapeOk(<<>>),
                      p1 + 1, fused_modconv, dtype)

\* SynthesisBlock.forward after conv0 (absent in the first block); conv1
\* takes position p1 of the iterators
block_conv1(cfg, block, img, w, m, fused_modconv, dtype, x0, r0, p1) ==
    IF r0.err # "none" THEN BlockErr(r0.err, <<>>)
    ELSE IF ~(iter_has(w, p1) /\ iter_has(m, p1))
    THEN BlockErr("StopIteration",
                  IF block.has_conv0
                  THEN <<LayerRun(block, "conv0", r0, 0, fused_modconv)>> ELSE <<>>)
    ELSE block_torgb(block, img, w, fused_modconv, dtype, x0,
                     IF block.has_conv0
                     THEN <<LayerRun(block, "conv0", r0, 0, fused_modconv)>> ELSE <<>>,
                     SynthesisLayer_forward(cfg, block.conv1, r0.x, w.item,
                                            Some(m.item), fused_modconv),
                     p1)

\* the main layers of SynthesisBlock.forward on the input x0; w and m are
\* the iterables w_iter and m_iter, of which conv0 takes position 0
block_main(cfg, block, img, w, m, fused_modconv, dtype, x0) ==
    IF block.has_conv0 /\ ~(iter_has(w, 0) /\ iter_has(m, 0))
    THEN BlockErr("StopIteration", <<>>)
    ELSE block_conv1(cfg, block, img, w, m, fused_modconv, dtype, x0,
                     IF block.has_conv0
                     THEN SynthesisLayer_forward(cfg, block.conv0, x0, w.item,
                                                 Some(m.item), fused_modconv)
                     ELSE [err |-> "none", x |-> x0, style_z |-> FALSE,
                           style_m |-> FALSE],
                     IF block.has_conv0 THEN 1 ELSE 0)

\* dtype = torch.float16 if self.use_fp16 and not force_fp32 else torch.float32
block_dtype(block, force_fp32) ==
    IF block.use_fp16 /\ ~force_fp32 THEN "float16" ELSE "float32"

\* a mutation of the fused_modconv policy: fused whenever not training
block_fused_modconv_eval(block, x, training, force_fp32) == ~training

\* fused_modconv = (not self.training) and (dtype == torch.float32 or
\* (isinstance(x, Tensor) and int(x.shape[0]) == 1))
block_fused_modconv(block, x, training, force_fp32) ==
    (~training) /\ (block_dtype(block, force_fp32) = "float32"
                    \/ (~x.none /\ x.v[1] = 1))

\* SynthesisBlock.forward(x, img, ws, ms=ms, motion_v=motion_v): x and img
\* optional shapes, ws a shape, ms an optional shape; layers lists the
\* SynthesisLayers that returned, in order
SynthesisBlock_forward(cfg, block, x, img, ws, ms, training, force_fp32) ==
    IF ~assert_shape(ws, <<-1, block.num_conv + block.num_torgb, block.w_dim>>)
    THEN BlockErr("AssertionError", <<>>)
    ELSE IF ms.none THEN BlockErr("AttributeError", <<>>)         \* ms.unbind
    ELSE IF block.in_channels # 0 /\ x.none
    THEN BlockErr("AttributeError", <<>>)                         \* assert_shape(None, ...)
    ELSE IF block.in_channels # 0
            /\ ~assert_shape(x.v, <<-1, block.in_channels, block.resolution \div 2,
                                    block.resolution \div 2>>)
    THEN BlockErr("AssertionError", <<>>)
    ELSE block_main(cfg, block, img, unbind(ws), unbind(ms.v),
                    block_fused_modconv(block, x, training, force_fp32),
                    block_dtype(block, force_fp32),
                    IF block.in_channels = 0
                    THEN GenInput_forward(ws[1], block.input_total_dim)
                    ELSE x.v)

\* a mutation of the num_ws accumulation: num_torgb counted for every block
num_ws_step_every_torgb(block) == block.num_conv + block.num_torgb

\* one iteration of the loop of SynthesisNetwork.__init__ on num_ws:
\* self.num_ws += block.num_conv; if is_last: self.num_ws += block.num_torgb
num_ws_step(block) ==
    block.num_conv + (IF block.is_last THEN block.num_torgb ELSE 0)

RECURSIVE num_ws_upto(_, _)
num_ws_upto(blocks, k) ==
    IF k = 0 THEN 0 ELSE num_ws_upto(blocks, k - 1) + num_ws_step(blocks[k])

\* MotionMappingNetwork(cfg).get_dim(): the size of the motion vector
motion_encoder_get_dim(cfg) == cfg.v_dim

\* SynthesisNetwork.__init__(w_dim, img_resolution, img_channels, cfg=cfg,
\* architecture=...), with the default channel_base, channel_max, num_fp16_res
SynthesisNetwork_init(cfg) ==
    LET log2 == Log2(cfg.img_resolution)
        brs == block_resolutions(cfg.img_resolution)
        ch(res) == channels_dict(res, channel_base_default, channel_max_default)
        fp16_resolution == Max(Pow2(log2 + 1 - cfg.num_fp16_res), 8)
        has_encoder == cfg.v_dim > 0
        motion_v_dim == IF has_encoder THEN motion_encoder_get_dim(cfg) ELSE 0
        blocks == [k \in 1..Len(brs) |->
                     SynthesisBlock_init(
                        cfg,
                        IF brs[k] > 4 THEN ch(brs[k] \div 2) ELSE 0,
                        ch(brs[k]),
                        WDim + (IF cfg.cond_type = "concat_w" THEN motion_v_dim ELSE 0),
                        brs[k],
                        ImgChannels,
                        brs[k] = cfg.img_resolution,
                        brs[k] >= fp16_resolution,
                        brs[k] \in cfg.mod_layers)]
    IN [w_dim |-> WDim,
        img_resolution |-> cfg.img_resolution,
        img_channels |-> ImgChannels,
        block_resolutions |-> brs,
        has_encoder |-> has_encoder,
        motion_v_dim |-> motion_v_dim,
        motion_num |-> cfg.motion_num,
        \* the input width of multimotionmap's first layer
        multimotionmap_in |-> IF cfg.consistent_motion THEN WDim
                              ELSE motion_v_dim + WDim,
        blocks |-> blocks,
        num_ws |-> num_ws_upto(blocks, Len(blocks))]

\* a mutation of repeat_interleave: the tensor is not replicated
repeat_interleave_once(shape, repeats) == shape

\* tensor.repeat_interleave(repeats, dim=0)
repeat_interleave(shape, repeats) == [shape EXCEPT ![1] = @ * repeats]

\* a mutation of narrow: one entry more than asked for
narrow_longer(shape, start, length) == ShapeOk([shape EXCEPT ![2] = length + 1])

\* tensor.narrow(1, start, length), start counted from 0
narrow(shape, start, length) ==
    IF start + length <= shape[2]
    THEN ShapeOk([shape EXCEPT ![2] = length])
    ELSE ShapeErr("RuntimeError")

\* a mutation of the check of ws: only the number of dimensions is checked
forward_checks_ws_rank_only(net, ws) == Len(ws) = 3

\* misc.assert_shape(ws, [None, self.num_ws, self.w_dim]) of
\* SynthesisNetwork.forward
forward_checks_ws(net, ws) == assert_shape(ws, <<-1, net.num_ws, net.w_dim>>)

\* self.multimotionmap: two FullyConnectedLayers
multimotionmap(net, shape) ==
    LET h == fully_connected(shape, net.multimotionmap_in, net.motion_num * net.w_dim)
    IN IF h.err # "none" THEN h
       ELSE fully_connected(h.shape, net.motion_num * net.w_dim,
                            net.motion_num * MotionDim)

WordsRes(err, motion, motion_words, bound, called) ==
    [err |-> err, motion |-> motion, motion_words |-> motion_words,
     bound |-> bound, called |-> called]

\* the motion words of SynthesisNetwork.forward: motion, motion_words,
\* whether motion_words was assigned and whether multimotionmap was called
motion_words_of(cfg, net, ws, t, motion_v) ==
    IF ~(net.motion_num > 0)
    THEN WordsRes("none", NoneV, NoneV, FALSE, FALSE)
    ELSE IF cfg.consistent_motion
    THEN LET h == multimotionmap(net, <<1, ws[3]>>)
             mw == IF h.err # "none" THEN h
                   ELSE reshape(h.shape, <<1, net.motion_num, MotionDim>>)
         IN IF mw.err # "none" THEN WordsRes(mw.err, NoneV, NoneV, FALSE, TRUE)
            ELSE IF motion_v.none                       \* motion_v.shape
            THEN WordsRes("AttributeError", NoneV, Some(mw.shape), TRUE, TRUE)
            ELSE WordsRes("none",
                          Some(<<motion_v.v[1], net.num_ws, mw.shape[2], mw.shape[3]>>),
                          Some(mw.shape), TRUE, TRUE)
    ELSE IF motion_v.none                               \* motion_v.unsqueeze
    THEN WordsRes("AttributeError", NoneV, NoneV, FALSE, FALSE)
    ELSE LET a == repeat_interleave(ws, t[2])
             b == <<motion_v.v[1], net.num_ws, motion_v.v[2]>>
             cat == IF a[1] = b[1] /\ a[2] = b[2]
                    THEN reshape(<<a[1], a[2], a[3] + b[3]>>,
                                 <<-1, net.w_dim + net.motion_v_dim>>)
                    ELSE ShapeErr("RuntimeError")
             h == IF cat.err # "none" THEN cat ELSE multimotionmap(net, cat.shape)
             m == IF h.err # "none" THEN h
                  ELSE reshape(h.shape, <<motion_v.v[1], net.num_ws, net.motion_num, -1>>)
         IN IF m.err # "none" THEN WordsRes(m.err, NoneV, NoneV, FALSE, cat.err = "none")
            ELSE WordsRes("none", Some(m.shape), Some(m.shape), TRUE, TRUE)

\* the sim a word-modulated layer gets from tensor_modulation_word ranges
\* over 0 .. MaxLayerSim
MaxLayerSim == 1
SimChoices == 0..MaxLayerSim

\* the sim returned by modulated_conv2d to a layer: torch.zeros(1) unless a
\* word modulation style_m was passed, then the sim s of tensor_modulation_word
layer_sim(run, s) == IF run.style_m THEN s ELSE 0

\* the sims of the layers of a block that ran, in order; s[i] is what
\* tensor_modulation_word would give the i-th of them
RECURSIVE layer_sims_of(_, _)
layer_sims_of(layers, s) ==
    IF layers = <<>> THEN <<>>
    ELSE Append(layer_sims_of(SubSeq(layers, 1, Len(layers) - 1), s),
                layer_sim(layers[Len(layers)], s[Len(layers)]))

\* a mutation of the block's diagnostic: the mean of the layers' sims
block_sims_mean(sims) == SumSeq(sims) \div Max(1, Len(sims))

\* the diagnostic of SynthesisBlock.forward: sims = 0.0, then sims += sim
\* after every SynthesisLayer
block_sims(sims) == SumSeq(sims)

\* a mutation of the network's diagnostic: the sum is not divided
forward_sims_undivided(total, num_ws) == [num |-> total, den |-> 1]

\* sims = sims / self.num_ws, as the fraction num / den
forward_sims(total, num_ws) == [num |-> total, den |-> num_ws]

\* a mutation of the running offset: w_idx advanced by num_conv + num_torgb
RECURSIVE w_idx_of_all(_, _)
w_idx_of_all(net, k) ==
    IF k = 1 THEN 0
    ELSE w_idx_of_all(net, k - 1) + net.blocks[k - 1].num_conv
                                  + net.blocks[k - 1].num_torgb

\* the start index of block k in the loop of 'split_ws': w_idx += block.num_conv
RECURSIVE w_idx_of(_, _)
w_idx_of(net, k) ==
    IF k = 1 THEN 0 ELSE w_idx_of(net, k - 1) + net.blocks[k - 1].num_conv

\* the configurations a network is built from
ModLayerChoices == {{}, {4, 16}}
SynCfgs ==
    [architecture : {"orig", "skip", "resnet"},
     img_resolution : Resolutions,
     motion_num : {0, MotionNum},
     consistent_motion : BOOLEAN,
     v_dim : {0, VDim},
     cond_type : {"concat_w", "concat_const"},
     mod_layers : ModLayerChoices,
     word_mod : BOOLEAN,
     style_z : BOOLEAN,
     num_fp16_res : {0}]

WsDefects == {"valid", "fewer", "more", "w_dim"}

\* the state after SynthesisNetwork.__init__(cfg): no call in progress
SynInit(cfg) ==
    [pc |-> "idle", cfg |-> cfg, net |-> SynthesisNetwork_init(cfg), training |-> TRUE,
     N |-> 0, T |-> 0, defect |-> "valid", ws |-> <<>>, t |-> <<>>, c |-> <<>>,
     motion_v |-> NoneV, motion |-> NoneV, motion_words |-> NoneV,
     motion_words_bound |-> FALSE,
     block_ws |-> <<>>, block_ms |-> <<>>, k |-> 0, x |-> NoneV, img |-> NoneV,
     err |-> "none", encoder_calls |-> 0, mmm_calls |-> 0, blocks_run |-> 0,
     layers |-> <<>>, w_starts |-> <<>>, trace |-> <<>>, sims |-> 0,
     ret |-> [img |-> NoneV, motion_words |-> NoneV, sims |-> forward_sims(0, 1)]]

SynFail(kind) == [syn EXCEPT !.pc = "done", !.err = kind]

\* SynthesisNetwork.forward(ws, t, c, motion_v=...) is entered
SynCall ==
    /\ syn.pc = "idle"
    /\ \E N \in 1..MaxSynBatch, T \in 1..MaxSynFrames, d \in WsDefects, given \in BOOLEAN :
         syn' = [syn EXCEPT
                   !.pc = "check", !.N = N, !.T = T, !.defect = d,
                   !.ws = <<N,
                            syn.net.num_ws + (CASE d = "fewer" -> -1 [] d = "more" -> 1
                                                [] OTHER -> 0),
                            syn.net.w_dim + (IF d = "w_dim" THEN 1 ELSE 0)>>,
                   !.t = <<N, T>>,
                   !.c = <<N, 1>>,
                   !.motion_v = IF given THEN Some(<<N * T, syn.net.motion_v_dim>>)
                                ELSE NoneV]
    /\ UNCHANGED <<chn, mbstd, mal, mc, blk, lyr, dsc>>

\* the asserts on ws, c and t
SynCheckArgs ==
    /\ syn.pc = "check"
    /\ syn' = IF ~(syn.ws[1] = syn.c[1] /\ syn.c[1] = syn.t[1]) THEN SynFail("AssertionError")
              ELSE IF Len(syn.t) # 2 THEN SynFail("AssertionError")
              ELSE IF ~forward_checks_ws(syn.net, syn.ws) THEN SynFail("AssertionError")
              ELSE [syn EXCEPT !.pc = "encode"]
    /\ UNCHANGED <<chn, mbstd, mal, mc, blk, lyr, dsc>>

\* motion_v: None without an encoder, the caller's if given, else encoded
SynMotionEncode ==
    /\ syn.pc = "encode"
    /\ syn' = IF ~syn.net.has_encoder
              THEN [syn EXCEPT !.pc = "words", !.motion_v = NoneV]
              ELSE IF syn.motion_v.none
              THEN [syn EXCEPT !.pc = "words",
                               !.motion_v = Some(<<syn.N * syn.T, syn.net.motion_v_dim>>),
                               !.encoder_calls = @ + 1]
              ELSE [syn EXCEPT !.pc = "words"]
    /\ UNCHANGED <<chn, mbstd, mal, mc, blk, lyr, dsc>>

\* the motion words
SynMotionWords ==
    /\ syn.pc = "words"
    /\ LET r == motion_words_of(syn.cfg, syn.net, syn.ws, syn.t, syn.motion_v)
       IN syn' = [syn EXCEPT
                    !.pc = IF r.err = "none" THEN "split" ELSE "done",
                    !.err = r.err,
                    !.motion = r.motion,
                    !.motion_words = r.motion_words,
                    !.motion_words_bound = r.bound,
                    !.mmm_calls = @ + (IF r.called THEN 1 ELSE 0)]
    /\ UNCHANGED <<chn, mbstd, mal, mc, blk, lyr, dsc>>

\* ws is replicated per frame and ws and motion are split over the blocks
SynSplit ==
    /\ syn.pc = "split"
    /\ LET ws == repeat_interleave(syn.ws, syn.t[2])
           nb == Len(syn.net.blocks)
           len(k) == syn.net.blocks[k].num_conv + syn.net.blocks[k].num_torgb
           bw == [k \in 1..nb |-> narrow(ws, w_idx_of(syn.net, k), len(k))]
           bm == [k \in 1..nb |-> narrow(syn.motion.v, w_idx_of(syn.net, k), len(k))]
       IN syn' = IF syn.motion.none                     \* motion.to(torch.float32)
                 THEN [SynFail("AttributeError") EXCEPT !.ws = ws]
                 ELSE IF \E k \in 1..nb : bw[k].err # "none" \/ bm[k].err # "none"
                 THEN [SynFail("RuntimeError") EXCEPT !.ws = ws]
                 ELSE [syn EXCEPT !.pc = "blocks", !.ws = ws, !.k = 1,
                                  !.w_starts = [k \in 1..nb |-> w_idx_of(syn.net, k)],
                                  !.sims = 0,
                                  !.block_ws = [k \in 1..nb |-> bw[k].shape],
                                  !.block_ms = [k \in 1..nb |-> bm[k].shape],
                                  !.x = NoneV, !.img = NoneV]
    /\ UNCHANGED <<chn, mbstd, mal, mc, blk, lyr, dsc>>

\* the record of one block call that returned: what it was given, what it
\* returned, and the sims of its layers
BlockCall(block, x, img, r, layer_sims) ==
    [res |-> block.resolution, x_in |-> x, img_in |-> img,
     x_out |-> r.x, img_out |-> r.img, img_dtype |-> r.img_dtype,
     x_dtype |-> r.x_dtype, layers |-> r.layers, torgb |-> r.torgb,
     layer_sims |-> layer_sims, sim |-> block_sims(layer_sims)]

\* the state after block syn.k returned r with the layer sims layer_sims
SynBlockReturned(r, layer_sims) ==
    [syn EXCEPT !.k = @ + 1, !.x = r.x, !.img = r.img,
                !.blocks_run = @ + 1,
                !.layers = @ \o r.layers,
                !.sims = @ + block_sims(layer_sims),
                !.trace = @ \o <<BlockCall(syn.net.blocks[syn.k], syn.x, syn.img, r,
                                           layer_sims)>>,
                !.pc = IF syn.k = Len(syn.net.blocks) THEN "return" ELSE "blocks"]

\* the sims tensor_modulation_word may give the layers of a block call: a
\* layer without word modulation never calls it
SimsFor(layers) ==
    {s \in [1..2 -> SimChoices] :
        \A i \in 1..2 : (i > Len(layers) \/ ~layers[i].style_m) => s[i] = 0}

\* one iteration of the loop over the blocks
SynRunBlock ==
    /\ syn.pc = "blocks"
    /\ syn.k <= Len(syn.net.blocks)
    /\ LET r == SynthesisBlock_forward(syn.cfg, syn.net.blocks[syn.k], syn.x, syn.img,
                                       syn.block_ws[syn.k], Some(syn.block_ms[syn.k]),
                                       syn.training, FALSE)
       IN IF r.err # "none"
          THEN syn' = [SynFail(r.err) EXCEPT !.layers = @ \o r.layers]
          ELSE \E s \in SimsFor(r.layers) :
                  syn' = SynBlockReturned(r, layer_sims_of(r.layers, s))
    /\ UNCHANGED <<chn, mbstd, mal, mc, blk, lyr, dsc>>

\* return img, motion_words, sims
SynReturn ==
    /\ syn.pc = "return"
    /\ syn' = IF ~syn.motion_words_bound THEN SynFail("UnboundLocalError")
              ELSE [syn EXCEPT !.pc = "done",
                               !.ret = [img |-> syn.img,
                                        motion_words |-> syn.motion_words,
                                        sims |-> forward_sims(syn.sims,
                                                              syn.net.num_ws)]]
    /\ UNCHANGED <<chn, mbstd, mal, mc, blk, lyr, dsc>>

InitSyn ==
    /\ \E cfg \in SynCfgs : syn = SynInit(cfg)
    /\ chn = Off /\ mbstd = Off /\ mal = Off /\ mc = Off /\ blk = Off /\ lyr = Off /\ dsc = Off

NextSyn ==
    \/ SynCall
    \/ SynCheckArgs
    \/ SynMotionEncode
    \/ SynMotionWords
    \/ SynSplit
    \/ SynRunBlock
    \/ SynReturn

SpecSyn == InitSyn /\ [][NextSyn]_vars

(***************************************************************************)
(* Properties of the synthesis network.                                    *)
(***************************************************************************)
SynOn == syn # Off

\* a call of forward with a well-shaped ws has ended
SynValidCallDone == SynOn /\ syn.pc = "done" /\ syn.defect = "valid"

\* forward returned (no exception)
SynReturned == SynOn /\ syn.pc = "done" /\ syn.err = "none"

SumNumConv(net) == SumSeq([k \in 1..Len(net.blocks) |-> net.blocks[k].num_conv])

SumNumConvTorgb(net) ==
    SumSeq([k \in 1..Len(net.blocks) |->
              net.blocks[k].num_conv + net.blocks[k].num_torgb])

\* C1 as stated: num_ws is the sum over all blocks of num_conv + num_torgb.
C1_AsStated == SynOn => syn.net.num_ws = SumNumConvTorgb(syn.net)

\* C1 amended: num_ws is the sum of num_conv over all blocks plus the
\* num_torgb of the last block only, which is where the slices that forward
\* narrows out of ws end; it equals the sum of num_conv + num_torgb for
\* 'orig' and 'resnet' and for 'skip' only at resolution 4, and is smaller
\* for 'skip' at every larger resolution.
C1_NumWsCountsLastTorgb ==
    SynOn =>
      LET net == syn.net
          nb == Len(net.blocks)
      IN /\ net.num_ws = SumNumConv(net) + net.blocks[nb].num_torgb
         /\ net.num_ws = w_idx_of(net, nb) + net.blocks[nb].num_conv
                                           + net.blocks[nb].num_torgb
         /\ (syn.cfg.architecture # "skip" \/ syn.cfg.img_resolution = 4)
               => net.num_ws = SumNumConvTorgb(net)
         /\ (syn.cfg.architecture = "skip" /\ syn.cfg.img_resolution > 4)
               => net.num_ws = SumNumConvTorgb(net) - (nb - 1)

\* C1 witness: a 'skip' network of resolution 16, whose blocks sum to 8, has
\* num_ws = 6 and its forward returned on a ws of 6 columns.
C1_Witness ==
    /\ SynReturned
    /\ syn.cfg.architecture = "skip" /\ syn.cfg.img_resolution = 16
    /\ syn.net.num_ws = 6 /\ SumNumConvTorgb(syn.net) = 8
    /\ syn.ws[2] = 6

\* C2: a forward whose ws has a wrong second or third dimension ends in an
\* assertion failure, and never calls the motion encoder, the motion-word
\* projection or a block.
C2_BadWsFailsFirst ==
    (SynOn /\ syn.pc # "idle" /\ syn.defect # "valid") =>
        /\ syn.pc \in {"check", "done"}
        /\ syn.pc = "done" => syn.err = "AssertionError"
        /\ syn.encoder_calls = 0 /\ syn.mmm_calls = 0
        /\ syn.blocks_run = 0 /\ syn.layers = <<>>

\* C2 witness: a network with a motion encoder and motion words was called
\* without motion_v and with one ws column too many, and the call failed.
C2_Witness ==
    /\ SynOn /\ syn.pc = "done" /\ syn.defect = "more"
    /\ syn.ws[2] = syn.net.num_ws + 1
    /\ syn.net.has_encoder /\ syn.motion_v.none /\ syn.net.motion_num > 0
    /\ syn.err = "AssertionError"

\* C3 as stated: with motion_num = 0, forward on valid inputs completes and
\* returns a None motion-word tensor and an image.
C3_AblationCompletes ==
    (SynValidCallDone /\ syn.cfg.motion_num = 0) =>
        /\ syn.err = "none"
        /\ syn.ret.motion_words.none
        /\ ~syn.ret.img.none

\* C6: whenever forward returns, the image has shape
\* (N*T, img_channels, img_resolution, img_resolution); the feature map
\* after block k has side 4 * 2^(k-1) and batch N*T.
C6_ImageShape ==
    /\ SynReturned =>
          syn.ret.img = Some(<<syn.N * syn.T, ImgChannels,
                               syn.cfg.img_resolution, syn.cfg.img_resolution>>)
    /\ (SynOn /\ syn.blocks_run > 0) =>
          /\ ~syn.x.none
          /\ syn.x.v[1] = syn.N * syn.T
          /\ syn.x.v[3] = 4 * Pow2(syn.blocks_run - 1)
          /\ syn.x.v[4] = 4 * Pow2(syn.blocks_run - 1)
          /\ syn.ws[1] = syn.N * syn.T

\* C6 witness: N = 2, T = 1, resolution 32 returns (2, img_channels, 32, 32).
C6_Witness ==
    /\ SynReturned
    /\ syn.N = 2 /\ syn.T = 1 /\ syn.cfg.img_resolution = 32
    /\ syn.blocks_run = 4
    /\ syn.ret.img = Some(<<2, ImgChannels, 32, 32>>)

\* C6 second case: two timestamps per sample give a batch of N*T = 4.
C6_WitnessFrames ==
    /\ SynReturned
    /\ syn.N = 2 /\ syn.T = 2
    /\ syn.ret.img.v[1] = 4

\* C10 as stated: without cfg.word_mod, no layer of a word-modulated block
\* ever runs.
C10_AsStated ==
    (SynOn /\ ~syn.cfg.word_mod) =>
        \A i \in DOMAIN syn.layers : ~syn.layers[i].word_mod

\* C10 amended: without cfg.word_mod, a layer of a word-modulated block runs
\* only when cfg.style_z is set, and then as a plain style-modulated layer
\* (affine style, no word modulation); when cfg.style_z is unset no
\* word-modulated block completes and the forward that reaches one ends in
\* an AttributeError (or in the block's own assertion on the width of ws
\* when cond_type 'concat_w' widened the block's w_dim).
C10_MismatchFailsOnlyWithoutStyleZ ==
    (SynOn /\ ~syn.cfg.word_mod) =>
        /\ \A i \in DOMAIN syn.layers :
              syn.layers[i].word_mod =>
                 (syn.cfg.style_z /\ syn.layers[i].style_z /\ ~syn.layers[i].style_m)
        /\ ~syn.cfg.style_z =>
              \A k \in DOMAIN syn.net.blocks :
                 syn.net.blocks[k].word_mod =>
                    /\ syn.blocks_run < k
                    /\ (syn.pc = "done" /\ syn.blocks_run = k - 1
                        /\ syn.block_ws # <<>>) =>
                          syn.err = IF syn.net.blocks[k].w_dim = syn.net.w_dim
                                    THEN "AttributeError"
                                    ELSE "AssertionError"

\* C10 witness: with cfg.style_z and without cfg.word_mod, forward returned
\* after a layer of a word-modulated block ran on the affine style alone.
C10_Witness ==
    /\ SynReturned
    /\ ~syn.cfg.word_mod /\ syn.cfg.style_z
    /\ \E i \in DOMAIN syn.layers :
          syn.layers[i].word_mod /\ syn.layers[i].style_z /\ ~syn.layers[i].style_m

\* C10 second case: without cfg.style_z the first forward failed in the
\* first word-modulated block.
C10_WitnessFails ==
    /\ SynOn /\ syn.pc = "done" /\ syn.err = "AttributeError"
    /\ ~syn.cfg.word_mod /\ ~syn.cfg.style_z
    /\ syn.block_ws # <<>> /\ syn.net.blocks[1].word_mod /\ syn.blocks_run = 0

(***************************************************************************)
(* Properties of the diagnostics, the slices and the order of the blocks.  *)
(***************************************************************************)
\* forward has split ws and motion over the blocks
SynSplitDone == SynOn /\ syn.w_starts # <<>>

\* the ws columns (counted from 0) of the slice given to block k
SliceOf(k) == (syn.w_starts[k]) .. (syn.w_starts[k] + syn.block_ws[k][2] - 1)

\* the sum of num_conv over the blocks before block k
NumConvBefore(net, k) == SumSeq([j \in 1..(k - 1) |-> net.blocks[j].num_conv])

\* C11 as stated: the diagnostic of every block call is the mean of the sims
\* of the layers it invoked.
C11_AsStated ==
    SynOn => \A k \in DOMAIN syn.trace :
                syn.trace[k].sim * Len(syn.trace[k].layer_sims)
                  = SumSeq(syn.trace[k].layer_sims)

\* C11 amended: the diagnostic of every block call is the sum of the sims of
\* the layers it invoked, one layer in the first block and two otherwise; it
\* is their mean only where one layer ran or the sum is zero.
C11_BlockDiagnosticIsSum ==
    SynOn => \A k \in DOMAIN syn.trace :
       LET c == syn.trace[k]
       IN /\ Len(c.layer_sims) = Len(c.layers)
          /\ Len(c.layers) = IF c.res = 4 THEN 1 ELSE 2
          /\ \A i \in DOMAIN c.layers :
                c.layer_sims[i] \in SimChoices
                /\ (~c.layers[i].style_m => c.layer_sims[i] = 0)
          /\ c.sim = SumSeq(c.layer_sims)
          /\ (c.sim * Len(c.layer_sims) = SumSeq(c.layer_sims))
                <=> (Len(c.layers) = 1 \/ SumSeq(c.layer_sims) = 0)

\* C11 witness: a block whose two layers both had sim 1 returned 2, not 1.
C11_Witness ==
    /\ SynOn
    /\ \E k \in DOMAIN syn.trace :
          syn.trace[k].layer_sims = <<1, 1>> /\ syn.trace[k].sim = 2

\* C12: the slices of ws and of motion given to block k start at the sum of
\* num_conv of the blocks before it and have num_conv + num_torgb entries;
\* every slice lies inside [0, num_ws), the last one ends at num_ws, and
\* narrow never fails.
C12_SlicesInRange ==
    /\ SynSplitDone =>
         LET net == syn.net
             nb == Len(net.blocks)
         IN /\ Len(syn.w_starts) = nb /\ Len(syn.block_ws) = nb
            /\ Len(syn.block_ms) = nb
            /\ \A k \in 1..nb :
                  /\ syn.w_starts[k] = NumConvBefore(net, k)
                  /\ syn.block_ws[k][2] = net.blocks[k].num_conv + net.blocks[k].num_torgb
                  /\ syn.block_ms[k][2] = syn.block_ws[k][2]
                  /\ syn.block_ws[k][1] = syn.N * syn.T
                  /\ SliceOf(k) # {}
                  /\ SliceOf(k) \subseteq 0..(net.num_ws - 1)
            /\ syn.w_starts[nb] + syn.block_ws[nb][2] = net.num_ws
    /\ (SynOn /\ syn.pc = "done" /\ ~syn.motion.none /\ syn.blocks_run = 0
        /\ syn.layers = <<>> /\ syn.err = "RuntimeError") => SynSplitDone

\* C12 witness: a 'skip' network of resolution 16 split its 6 columns at
\* offsets 0, 1, 3 into slices of 2, 3 and 3.
C12_Witness ==
    /\ SynSplitDone
    /\ syn.cfg.architecture = "skip" /\ syn.cfg.img_resolution = 16
    /\ syn.w_starts = <<0, 1, 3>>
    /\ [k \in 1..3 |-> syn.block_ws[k][2]] = <<2, 3, 3>>
    /\ syn.net.num_ws = 6

\* C13 as stated: every column of ws belongs to the slice of exactly one
\* block.
C13_AsStated ==
    SynSplitDone =>
       \A i \in 0..(syn.net.num_ws - 1) :
          Cardinality({k \in DOMAIN syn.w_starts : i \in SliceOf(k)}) = 1

\* C13 amended: every column of ws belongs to at least one slice and no
\* column outside ws does; for 'orig' and 'resnet' (and a single block) to
\* exactly one; for 'skip' each slice shares its last column, the one its
\* ToRGB reads, with the first column of the next block's slice, and slices
\* of blocks that are not neighbours are disjoint.
C13_SlicesCoverAndOverlap ==
    SynSplitDone =>
       LET nb == Len(syn.w_starts)
           owners(i) == {k \in 1..nb : i \in SliceOf(k)}
       IN /\ \A i \in 0..(syn.net.num_ws - 1) : owners(i) # {}
          /\ \A k \in 1..nb : SliceOf(k) \subseteq 0..(syn.net.num_ws - 1)
          /\ (syn.cfg.architecture # "skip" \/ nb = 1) =>
                \A i \in 0..(syn.net.num_ws - 1) : Cardinality(owners(i)) = 1
          /\ syn.cfg.architecture = "skip" =>
                \A k, l \in 1..nb :
                   k < l => SliceOf(k) \cap SliceOf(l)
                              = IF l = k + 1 THEN {syn.w_starts[l]} ELSE {}

\* C13 witness: in a 'skip' network of resolution 8, column 1 is in the
\* slices of both blocks.
C13_Witness ==
    /\ SynSplitDone
    /\ syn.cfg.architecture = "skip" /\ syn.cfg.img_resolution = 8
    /\ 1 \in SliceOf(1) /\ 1 \in SliceOf(2)

\* C14: a forward that returns has called every block once, in increasing
\* resolution from 4 to img_resolution; the first block got x = img = None,
\* every later block got what the block before it returned, and the returned
\* diagnostic is the sum of the blocks' diagnostics over num_ws.
C14_BlocksInOrder ==
    /\ SynOn =>
         /\ Len(syn.trace) = syn.blocks_run
         /\ \A k \in DOMAIN syn.trace :
               /\ syn.trace[k].res = syn.net.block_resolutions[k]
               /\ syn.trace[k].res = 4 * Pow2(k - 1)
               /\ k = 1 => (syn.trace[k].x_in.none /\ syn.trace[k].img_in.none)
               /\ k > 1 => /\ syn.trace[k].x_in = syn.trace[k - 1].x_out
                           /\ syn.trace[k].img_in = syn.trace[k - 1].img_out
         /\ syn.sims = SumSeq([k \in DOMAIN syn.trace |-> syn.trace[k].sim])
    /\ SynReturned =>
         LET nb == Len(syn.net.block_resolutions)
         IN /\ Len(syn.trace) = nb
            /\ syn.trace[nb].res = syn.cfg.img_resolution
            /\ syn.ret.img = syn.trace[nb].img_out
            /\ syn.ret.sims.num = SumSeq([k \in 1..nb |-> syn.trace[k].sim])
            /\ syn.ret.sims.den = syn.net.num_ws

\* C14 witness: a forward over the blocks 4, 8, 16 returned a nonzero
\* diagnostic over num_ws.
C14_Witness ==
    /\ SynReturned
    /\ Len(syn.trace) = 3
    /\ [k \in 1..3 |-> syn.trace[k].res] = <<4, 8, 16>>
    /\ syn.ret.sims.num > 1 /\ syn.ret.sims.den = syn.net.num_ws

\* C16: a block has a ToRGB layer iff is_last or architecture = 'skip'; a
\* block call without ToRGB gets and returns no image, a block call with
\* ToRGB returns the upsampled incoming image, or the ToRGB output when it
\* got none; the image a forward returns is a float32 tensor.
C16_ToRGBAndImage ==
    /\ SynOn =>
         /\ \A k \in DOMAIN syn.net.blocks :
               LET b == syn.net.blocks[k]
               IN /\ b.has_torgb <=> (b.is_last \/ syn.cfg.architecture = "skip")
                  /\ b.num_torgb = IF b.has_torgb THEN 1 ELSE 0
         /\ \A k \in DOMAIN syn.trace :
               LET c == syn.trace[k]
               IN /\ c.torgb.ran <=> syn.net.blocks[k].has_torgb
                  /\ ~c.torgb.ran =>
                        (c.img_in.none /\ c.img_out.none /\ c.img_dtype = "none")
                  /\ c.torgb.ran =>
                        /\ c.img_dtype = "float32"
                        /\ c.img_out = Some(<<syn.N * syn.T, ImgChannels, c.res, c.res>>)
                        /\ ~c.img_in.none => c.img_out = upsample2d_opt(c.img_in)
    /\ SynReturned =>
         /\ ~syn.ret.img.none
         /\ syn.trace[Len(syn.trace)].img_dtype = "float32"

\* C16 witness: an 'orig' network of resolution 16 returned an image after
\* two blocks without ToRGB kept it None.
C16_Witness ==
    /\ SynReturned
    /\ syn.cfg.architecture = "orig" /\ syn.cfg.img_resolution = 16
    /\ syn.trace[1].img_out.none /\ syn.trace[2].img_out.none
    /\ ~syn.trace[3].img_out.none /\ syn.trace[3].torgb.ran

\* C16 second case: a 'skip' block added its ToRGB output to the upsampled
\* image of the block before.
C16_WitnessSkip ==
    /\ SynReturned
    /\ syn.cfg.architecture = "skip"
    /\ \E k \in DOMAIN syn.trace :
          /\ syn.trace[k].torgb.ran /\ ~syn.trace[k].img_in.none
          /\ syn.trace[k].img_out = upsample2d_opt(syn.trace[k].img_in)

\* C19 as stated: with motion_num > 0 and consistent_motion, every forward
\* on a well-shaped ws builds one bank of words from the averaged styles and
\* hands it to the blocks repeated over all N*T samples and num_ws columns,
\* with or without a motion encoder.
C19_ConsistentBankAlways ==
    (SynOn /\ syn.defect = "valid" /\ syn.cfg.motion_num > 0
     /\ syn.cfg.consistent_motion
     /\ syn.pc \notin {"idle", "check", "encode", "words"}) =>
        /\ syn.mmm_calls = 1
        /\ syn.motion_words = Some(<<1, syn.cfg.motion_num, MotionDim>>)
        /\ syn.motion = Some(<<syn.N * syn.T, syn.net.num_ws,
                               syn.cfg.motion_num, MotionDim>>)


\* C22: once forward has split a ws that passed the network's shape check,
\* the slice given to every block has the last dimension of the w_dim the
\* block was constructed with, so that no block's assertion on ws rejects
\* it.
C22_SliceWidthMatchesBlock ==
    (SynSplitDone /\ syn.defect = "valid") =>
        \A k \in DOMAIN syn.block_ws :
            syn.block_ws[k][3] = syn.net.blocks[k].w_dim

(***************************************************************************)
(* SynthesisBlock.forward called on its own: the block is built as         *)
(* SynthesisNetwork.__init__ builds the block of a resolution, then called *)
(* once in training or evaluation mode, with a ws slice and an ms slice of *)
(* a right or wrong length.                                                *)
(***************************************************************************)
MaxBlockBatch == 2

BlockResolutions == {4, 8}

BlockCfgs == [architecture : {"orig", "skip", "resnet"}, word_mod : BOOLEAN, style_z : BOOLEAN]

SliceDefects == {"valid", "fewer", "more"}

\* the length of a slice with the defect d, n being the right length
slice_len(n, d) == n + (CASE d = "fewer" -> -1 [] d = "more" -> 1 [] OTHER -> 0)

\* the block of resolution res as SynthesisNetwork.__init__ builds it
BlockBuilt(cfg, res, is_last, use_fp16, word_mod) ==
    SynthesisBlock_init(
        cfg,
        IF res > 4 THEN channels_dict(res \div 2, channel_base_default, channel_max_default)
        ELSE 0,
        channels_dict(res, channel_base_default, channel_max_default),
        WDim, res, ImgChannels, is_last, use_fp16, word_mod)

BlkInit ==
    \E cfg \in BlockCfgs, res \in BlockResolutions, is_last \in BOOLEAN, use_fp16 \in BOOLEAN, word_mod \in BOOLEAN :
        blk = [pc |-> "built", cfg |-> cfg,
               block |-> BlockBuilt(cfg, res, is_last, use_fp16, word_mod),
               training |-> FALSE, force_fp32 |-> FALSE,
               x |-> NoneV, img |-> NoneV, ws |-> <<>>, ms |-> <<>>,
               ws_defect |-> "valid", ms_defect |-> "valid",
               out |-> BlockErr("none", <<>>)]

\* the arguments of one call: x is the previous block's feature map (None
\* for the first block), img the running image or None
BlockArgs(b, N, training, force_fp32, with_img, wd, md) ==
    [blk EXCEPT
       !.training = training, !.force_fp32 = force_fp32,
       !.x = IF b.in_channels = 0 THEN NoneV
             ELSE Some(<<N, b.in_channels, b.resolution \div 2, b.resolution \div 2>>),
       !.img = IF with_img /\ b.in_channels # 0
               THEN Some(<<N, b.img_channels, b.resolution \div 2, b.resolution \div 2>>)
               ELSE NoneV,
       !.ws = <<N, slice_len(b.num_conv + b.num_torgb, wd), b.w_dim>>,
       !.ms = <<N, slice_len(b.num_conv + b.num_torgb, md), 1, MotionDim>>,
       !.ws_defect = wd, !.ms_defect = md]

BlockCalled(a) ==
    [a EXCEPT !.pc = "done",
              !.out = SynthesisBlock_forward(a.cfg, a.block, a.x, a.img, a.ws,
                                             Some(a.ms), a.training, a.force_fp32)]

\* block.train() or block.eval(), then block(x, img, ws, ms=ms, force_fp32=...)
BlockForward ==
    /\ blk.pc = "built"
    /\ \E N \in 1..MaxBlockBatch, training \in BOOLEAN, force_fp32 \in BOOLEAN, with_img \in BOOLEAN, wd \in SliceDefects, md \in SliceDefects :
         blk' = BlockCalled(BlockArgs(blk.block, N, training, force_fp32, with_img, wd, md))
    /\ UNCHANGED <<chn, mbstd, mal, mc, syn, lyr, dsc>>

InitBlock ==
    /\ BlkInit
    /\ chn = Off /\ mbstd = Off /\ mal = Off /\ mc = Off /\ syn = Off /\ lyr = Off /\ dsc = Off

NextBlock == BlockForward

SpecBlock == InitBlock /\ [][NextBlock]_vars

BlockDone == blk.pc = "done"

BlockReturned == blk.pc = "done" /\ blk.out.err = "none"

\* the fused_modconv values given to the layers that ran in the call,
\* ToRGB included
FusedGiven ==
    {blk.out.layers[i].fused : i \in 1..Len(blk.out.layers)}
        \cup (IF blk.out.torgb.ran THEN {blk.out.torgb.fused} ELSE {})

\* C15: without a fused_modconv argument, every layer of one block call,
\* ToRGB included, is given the same fused_modconv, which is true if and
\* only if the block is not in training mode and (the working dtype is
\* float32 or the incoming feature map is a tensor of batch size 1); in
\* training mode every layer runs unfused.
C15_FusedPolicy ==
    BlockDone =>
        /\ FusedGiven \subseteq
             {(~blk.training)
               /\ ((~(blk.block.use_fp16 /\ ~blk.force_fp32))
                    \/ (~blk.x.none /\ blk.x.v[1] = 1))}
        /\ blk.training => FusedGiven \subseteq {FALSE}
        /\ BlockReturned => Len(blk.out.layers) = blk.block.num_conv

\* a half-precision block in evaluation mode on a batch of one sample ran
\* both convolutions and ToRGB fused
C15_Witness ==
    /\ BlockReturned
    /\ ~blk.training /\ blk.block.use_fp16 /\ ~blk.force_fp32
    /\ ~blk.x.none /\ blk.x.v[1] = 1
    /\ Len(blk.out.layers) = 2 /\ blk.out.torgb.ran
    /\ FusedGiven = {TRUE}

\* a half-precision block in evaluation mode on a batch of two samples ran
\* unfused, and so did a block in training mode
C15_WitnessUnfused ==
    /\ BlockReturned
    /\ ~blk.training /\ blk.block.use_fp16 /\ ~blk.force_fp32
    /\ ~blk.x.none /\ blk.x.v[1] = 2
    /\ Len(blk.out.layers) = 2 /\ blk.out.torgb.ran
    /\ FusedGiven = {FALSE}

\* the layers of a block in the order of SynthesisBlock.forward
BlockLayerNames(b) == IF b.has_conv0 THEN <<"conv0", "conv1">> ELSE <<"conv1">>

C20_WitnessRejected ==
    /\ BlockDone
    /\ blk.ws_defect = "fewer"
    /\ blk.out.err = "AssertionError"
    /\ blk.out.layers = <<>>

\* the ms slice is not checked: one shorter than the layers need exhausts
\* m_iter
C20_WitnessShortMs ==
    /\ BlockDone
    /\ blk.ws_defect = "valid"
    /\ blk.ms[2] < blk.block.num_conv
    /\ blk.out.err = "StopIteration"


(***************************************************************************)
(* The noise input of SynthesisLayer: the layer is built from a cfg with   *)
(* or without use_noise and called once with a noise_mode.                 *)
(***************************************************************************)
MaxLayerBatch == 2

NoiseModes == {"random", "const", "none"}

\* the noise_mode arguments of a call: the three modes and another string
NoiseModeArgs == NoiseModes \cup {"zeros"}

LayerCfgs == [style_z : BOOLEAN, word_mod : BOOLEAN, use_noise : BOOLEAN]

NoNoise == [none |-> TRUE, kind |-> "none", shape |-> <<>>]

\* if self.cfg.use_noise: self.register_buffer('noise_const',
\* torch.randn([resolution, resolution])); self.noise_strength = ...
layer_noise_const(cfg, resolution) ==
    IF cfg.use_noise THEN Some(<<resolution, resolution>>) ELSE NoneV

\* a mutation of the noise selection: cfg.use_noise is not consulted
layer_noise_any_cfg(cfg, layer, x, noise_mode) ==
    IF noise_mode = "random"
    THEN [none |-> FALSE, kind |-> "random",
          shape |-> <<x[1], 1, layer.resolution, layer.resolution>>]
    ELSE IF noise_mode = "const"
    THEN [none |-> FALSE, kind |-> "const",
          shape |-> <<layer.resolution, layer.resolution>>]
    ELSE NoNoise

\* noise = None; if self.cfg.use_noise and noise_mode == 'random': noise =
\* torch.randn([x.shape[0], 1, resolution, resolution]) * self.noise_strength;
\* if self.cfg.use_noise and noise_mode == 'const': noise =
\* self.noise_const * self.noise_strength
layer_noise(cfg, layer, x, noise_mode) ==
    IF cfg.use_noise /\ noise_mode = "random"
    THEN [none |-> FALSE, kind |-> "random",
          shape |-> <<x[1], 1, layer.resolution, layer.resolution>>]
    ELSE IF cfg.use_noise /\ noise_mode = "const"
    THEN [none |-> FALSE, kind |-> "const",
          shape |-> layer_noise_const(cfg, layer.resolution).v]
    ELSE NoNoise

LayerNoiseErr(kind) ==
    [err |-> kind, x |-> <<>>, style_z |-> FALSE, style_m |-> FALSE,
     noise |-> NoNoise, noise_added |-> FALSE]

\* the end of modulated_conv2d: fma(x, dcoefs, noise) when unfused,
\* x.add_(noise) when fused, nothing when noise is None; r is the result of
\* the layer without the noise
layer_add_noise(r, noise) ==
    IF r.err # "none" THEN LayerNoiseErr(r.err)
    ELSE IF ~noise.none /\ broadcast(r.x, noise.shape) # ShapeOk(r.x)
    THEN LayerNoiseErr("RuntimeError")
    ELSE [err |-> "none", x |-> r.x, style_z |-> r.style_z, style_m |-> r.style_m,
          noise |-> noise, noise_added |-> ~noise.none]

\* SynthesisLayer.forward(x, w, c, noise_mode=..., fused_modconv=...): the
\* assertion on noise_mode, then the layer with the noise it selected
SynthesisLayer_forward_noise(cfg, layer, x, w, c, noise_mode, fused_modconv) ==
    IF noise_mode \notin NoiseModes THEN LayerNoiseErr("AssertionError")
    ELSE layer_add_noise(SynthesisLayer_forward(cfg, layer, x, w, c, fused_modconv),
                         layer_noise(cfg, layer, x, noise_mode))

\* conv0 (up = 2) or conv1 (up = 1) of the block of resolution res
LayerBuilt(cfg, res, up, word_mod) ==
    SynthesisLayer_init(
        cfg,
        channels_dict(res \div up, channel_base_default, channel_max_default),
        channels_dict(res, channel_base_default, channel_max_default),
        WDim, res, up, word_mod)

LyrInit ==
    \E cfg \in LayerCfgs, res \in BlockResolutions, up \in {1, 2}, word_mod \in BOOLEAN :
        lyr = [pc |-> "built", cfg |-> cfg, layer |-> LayerBuilt(cfg, res, up, word_mod),
               noise_const |-> layer_noise_const(cfg, res),
               x |-> <<>>, noise_mode |-> "none", fused_modconv |-> FALSE,
               out |-> LayerNoiseErr("none")]

LayerCalled(a) ==
    [a EXCEPT !.pc = "done",
              !.out = SynthesisLayer_forward_noise(
                          a.cfg, a.layer, a.x, <<a.x[1], a.layer.w_dim>>,
                          Some(<<a.x[1], 1, MotionDim>>), a.noise_mode, a.fused_modconv)]

\* layer(x, w, c, noise_mode=noise_mode, fused_modconv=fused_modconv)
LayerForward ==
    /\ lyr.pc = "built"
    /\ \E N \in 1..MaxLayerBatch, noise_mode \in NoiseModeArgs, fused_modconv \in BOOLEAN :
         lyr' = LayerCalled(
                  [lyr EXCEPT !.x = <<N, lyr.layer.in_channels,
                                      lyr.layer.resolution \div lyr.layer.up,
                                      lyr.layer.resolution \div lyr.layer.up>>,
                              !.noise_mode = noise_mode,
                              !.fused_modconv = fused_modconv])
    /\ UNCHANGED <<chn, mbstd, mal, mc, syn, blk, dsc>>

InitLayer ==
    /\ LyrInit
    /\ chn = Off /\ mbstd = Off /\ mal = Off /\ mc = Off /\ syn = Off /\ blk = Off /\ dsc = Off

NextLayer == LayerForward

SpecLayer == InitLayer /\ [][NextLayer]_vars

LayerDone == lyr.pc = "done"

LayerReturned == lyr.pc = "done" /\ lyr.out.err = "none"

\* C17: a call with a noise_mode outside 'random', 'const', 'none' fails by
\* assertion with nothing computed; a call with one of the three modes
\* fails or returns exactly as the layer does without noise, and when it
\* returns, a noise tensor was passed to the convolution and added if and
\* only if the layer was built with cfg.use_noise and the mode is 'random'
\* (a fresh tensor of one channel per sample) or 'const' (the registered
\* resolution x resolution buffer).
C17_NoiseModes ==
    LayerDone =>
        /\ lyr.noise_mode \notin {"random", "const", "none"}
             => /\ lyr.out.err = "AssertionError"
                /\ lyr.out.x = <<>>
                /\ ~lyr.out.style_z /\ ~lyr.out.style_m /\ lyr.out.noise.none
        /\ lyr.noise_mode \in {"random", "const", "none"}
             => lyr.out.err = SynthesisLayer_forward(
                                  lyr.cfg, lyr.layer, lyr.x, <<lyr.x[1], lyr.layer.w_dim>>,
                                  Some(<<lyr.x[1], 1, MotionDim>>), lyr.fused_modconv).err
        /\ LayerReturned
             => /\ (~lyr.out.noise.none)
                     = (lyr.cfg.use_noise /\ lyr.noise_mode \in {"random", "const"})
                /\ lyr.out.noise_added = ~lyr.out.noise.none
                /\ lyr.out.noise.kind
                     = (IF lyr.cfg.use_noise /\ lyr.noise_mode \in {"random", "const"}
                        THEN lyr.noise_mode ELSE "none")
                /\ lyr.out.noise.kind = "const"
                     => /\ ~lyr.noise_const.none
                        /\ lyr.out.noise.shape = lyr.noise_const.v
                /\ lyr.out.noise.kind = "random"
                     => lyr.out.noise.shape
                          = <<lyr.x[1], 1, lyr.layer.resolution, lyr.layer.resolution>>

\* a layer built with use_noise returned after adding fresh noise
C17_Witness ==
    /\ LayerReturned
    /\ lyr.cfg.use_noise /\ lyr.noise_mode = "random"
    /\ lyr.out.noise_added /\ lyr.out.noise.kind = "random"

\* the registered buffer was added in mode 'const'
C17_WitnessConst ==
    /\ LayerReturned
    /\ lyr.cfg.use_noise /\ lyr.noise_mode = "const"
    /\ lyr.out.noise_added /\ lyr.out.noise.shape = lyr.noise_const.v

\* a layer built without use_noise returned in mode 'random' with no noise
C17_WitnessDisabled ==
    /\ LayerReturned
    /\ ~lyr.cfg.use_noise /\ lyr.noise_mode = "random"
    /\ lyr.out.noise.none /\ ~lyr.out.noise_added

\* another noise_mode was rejected
C17_WitnessRejected ==
    /\ LayerDone
    /\ lyr.noise_mode = "zeros"
    /\ lyr.out.err = "AssertionError"


(***************************************************************************)
(* The construction of the Discriminator: one DiscriminatorBlock per       *)
(* resolution, each numbering its layers from first_layer_idx and marking  *)
(* them trainable or frozen.                                               *)
(***************************************************************************)
MaxFreezeLayers == 11

\* cfg.sampling.num_frames_per_video
NumFramesPerVideo == 2

\* a small channel_base, under which channels_dict has entries 1 and 0
SmallChannelBase == 16

DiscCfgs ==
    [img_resolution : Resolutions,
     architecture : {"orig", "skip", "resnet"},
     freeze_layers : 0..MaxFreezeLayers,
     channel_base : {channel_base_default, SmallChannelBase},
     concat_res : {0, 16},
     num_frames_div_factor : {1, 2},
     motion_diff : BOOLEAN]

\* a layer of a DiscriminatorBlock: its name, the layer_idx computed for it
\* and the trainable argument its constructor was given
DiscLayer(name, t) == [name |-> name, layer_idx |-> t.layer_idx, trainable |-> t.trainable]

\* a mutation of trainable_gen: the index restarts in every block
trainable_gen_next_local(first_layer_idx, num_layers, freeze_layers) ==
    [layer_idx |-> num_layers, trainable |-> num_layers >= freeze_layers]

\* next(trainable_iter) when self.num_layers is num_layers:
\* layer_idx = self.first_layer_idx + self.num_layers;
\* trainable = (layer_idx >= freeze_layers); self.num_layers += 1
trainable_gen_next(first_layer_idx, num_layers, freeze_layers) ==
    [layer_idx |-> first_layer_idx + num_layers,
     trainable |-> first_layer_idx + num_layers >= freeze_layers]

\* the layers DiscriminatorBlock.__init__ constructs, in order
disc_block_layer_names(in_channels, architecture) ==
    (IF in_channels = 0 \/ architecture = "skip" THEN <<"fromrgb">> ELSE <<>>)
        \o <<"conv0", "conv1">>
        \o (IF architecture = "resnet" THEN <<"skip">> ELSE <<>>)

\* the construction of the layers names, self.num_layers being num_layers
\* before the first of them
RECURSIVE disc_block_layers(_, _, _, _)
disc_block_layers(names, first_layer_idx, num_layers, freeze_layers) ==
    IF names = <<>> THEN <<>>
    ELSE <<DiscLayer(Head(names),
                     trainable_gen_next(first_layer_idx, num_layers, freeze_layers))>>
           \o disc_block_layers(Tail(names), first_layer_idx, num_layers + 1,
                                freeze_layers)

\* the block from the layers it constructed
disc_block_of(in_channels, resolution, first_layer_idx, architecture, layers) ==
    [in_channels |-> in_channels, resolution |-> resolution,
     first_layer_idx |-> first_layer_idx, architecture |-> architecture,
     layers |-> layers, num_layers |-> Len(layers)]

\* DiscriminatorBlock.__init__
DiscriminatorBlock_init(in_channels, resolution, first_layer_idx, architecture, freeze_layers) ==
    disc_block_of(in_channels, resolution, first_layer_idx, architecture,
                  disc_block_layers(disc_block_layer_names(in_channels, architecture),
                                    first_layer_idx, 0, freeze_layers))

\* in_channels of the block of resolution res in Discriminator.__init__
disc_in_channels(cfg, res) ==
    LET in_channels == IF res < cfg.img_resolution
                       THEN channels_dict(res, cfg.channel_base, channel_max_default)
                       ELSE 0
    IN IF res = cfg.concat_res
       THEN (in_channels \div cfg.num_frames_div_factor) * NumFramesPerVideo
                * (IF cfg.motion_diff THEN 2 ELSE 1)
       ELSE in_channels

DscInit ==
    \E cfg \in DiscCfgs :
        dsc = [pc |-> "blocks", cfg |-> cfg,
               block_resolutions |-> disc_block_resolutions(cfg.img_resolution),
               cur_layer_idx |-> 0, blocks |-> <<>>]

\* one iteration of "for res in self.block_resolutions" of
\* Discriminator.__init__
DiscBuildBlock ==
    /\ dsc.pc = "blocks"
    /\ Len(dsc.blocks) < Len(dsc.block_resolutions)
    /\ LET res == dsc.block_resolutions[Len(dsc.blocks) + 1]
           block == DiscriminatorBlock_init(disc_in_channels(dsc.cfg, res), res,
                                            dsc.cur_layer_idx, dsc.cfg.architecture,
                                            dsc.cfg.freeze_layers)
       IN dsc' = [dsc EXCEPT !.blocks = Append(@, block),
                             !.cur_layer_idx = @ + block.num_layers]
    /\ UNCHANGED <<chn, mbstd, mal, mc, syn, blk, lyr>>

\* the end of Discriminator.__init__ after the loop: the mapping network
\* and the epilogue b4, which take no layer index
DiscBuildEpilogue ==
    /\ dsc.pc = "blocks"
    /\ Len(dsc.blocks) = Len(dsc.block_resolutions)
    /\ dsc' = [dsc EXCEPT !.pc = "done"]
    /\ UNCHANGED <<chn, mbstd, mal, mc, syn, blk, lyr>>

InitDisc ==
    /\ DscInit
    /\ chn = Off /\ mbstd = Off /\ mal = Off /\ mc = Off /\ syn = Off /\ blk = Off /\ lyr = Off

NextDisc == DiscBuildBlock \/ DiscBuildEpilogue

SpecDisc == InitDisc /\ [][NextDisc]_vars

\* the layers of the first k blocks in construction order
RECURSIVE DiscLayersUpto(_, _)
DiscLayersUpto(blocks, k) ==
    IF k = 0 THEN <<>> ELSE DiscLayersUpto(blocks, k - 1) \o blocks[k].layers

DiscLayers == DiscLayersUpto(dsc.blocks, Len(dsc.blocks))

DiscLayerRank(name) ==
    CASE name = "fromrgb" -> 0 [] name = "conv0" -> 1 [] name = "conv1" -> 2 [] OTHER -> 3

\* C18: at every point of the construction the blocks built so far are in
\* decreasing resolution order, each lists its layers in the order fromrgb,
\* conv0, conv1, skip, and the layers of all blocks taken in that order
\* have the indices 0, 1, 2, ... and are trainable if and only if their
\* index is at least freeze_layers; the frozen layers are therefore the
\* first min(freeze_layers, number of block layers) ones.
C18_FreezeLayers ==
    dsc.pc \in {"blocks", "done"} =>
        /\ \A k \in 1..Len(dsc.blocks) :
             /\ dsc.blocks[k].resolution = dsc.block_resolutions[k]
             /\ k > 1 => dsc.blocks[k].resolution < dsc.blocks[k - 1].resolution
             /\ \A i \in 1..(Len(dsc.blocks[k].layers) - 1) :
                  DiscLayerRank(dsc.blocks[k].layers[i].name)
                    < DiscLayerRank(dsc.blocks[k].layers[i + 1].name)
        /\ \A i \in 1..Len(DiscLayers) :
             /\ DiscLayers[i].layer_idx = i - 1
             /\ DiscLayers[i].trainable = (i - 1 >= dsc.cfg.freeze_layers)
        /\ Cardinality({i \in 1..Len(DiscLayers) : ~DiscLayers[i].trainable})
             = Min(dsc.cfg.freeze_layers, Len(DiscLayers))
        /\ dsc.cur_layer_idx = Len(DiscLayers)

\* a discriminator of two blocks or more was built whose second block holds
\* the last frozen layer and the first trainable one
C18_Witness ==
    /\ dsc.pc = "done"
    /\ Len(dsc.blocks) >= 2
    /\ ~dsc.blocks[2].layers[1].trainable
    /\ dsc.blocks[2].layers[2].trainable
    /\ dsc.blocks[2].layers[1].layer_idx = dsc.cfg.freeze_layers - 1

\* freeze_layers exceeds the number of block layers: all of them are frozen
C18_WitnessAllFrozen ==
    /\ dsc.pc = "done"
    /\ Len(dsc.blocks) >= 1
    /\ dsc.cfg.freeze_layers > Len(DiscLayers)
    /\ \A i \in 1..Len(DiscLayers) : ~DiscLayers[i].trainable

\* a block that is not the first one got a fromrgb layer without the 'skip'
\* architecture, its in_channels being 0
C18_WitnessLateFromRgb ==
    /\ dsc.pc = "done"
    /\ Len(dsc.blocks) >= 2
    /\ dsc.cfg.architecture = "resnet"
    /\ dsc.blocks[2].layers[1].name = "fromrgb"
    /\ Len(dsc.blocks[2].layers) = 4


(***************************************************************************)
(* The dtypes of SynthesisBlock.forward: the block is built with or        *)
(* without use_fp16 and use_attention and called once; every tensor is     *)
(* followed by its dtype only ("none" for an absent tensor).               *)
(***************************************************************************)
Dtypes == {"float16", "float32"}

\* the dtype of the img argument: None, or a tensor of either dtype
ImgDtypeArgs == {"none"} \cup Dtypes

\* tensor.to(dtype=target)
to_dtype(d, target) == target

\* self.input(ws.shape[0], motion_v=motion_v, dtype=dtype, ...)
GenInput_dtype(dtype) == dtype

\* SynthesisLayer.forward: modulated_conv2d casts weight, styles, dcoefs and
\* noise to x.dtype (or adds the noise in place) and bias_act gets
\* self.bias.to(x.dtype), so the result has the dtype of x
SynthesisLayer_dtype(x) == x

\* ToRGBLayer.forward: modulated_conv2d and bias_act, as above
ToRGBLayer_dtype(x) == x

\* self.skip(x, gain=...), a Conv2dLayer
Conv2dLayer_dtype(x) == x

\* a.add_(b): in place, the result is a
add_dtype(a, b) == a

\* upfirdn2d.upsample2d(img, self.resample_filter)
upsample2d_dtype(img) == img

\* TSA.forward: 1x1x1 convolutions, softmax and out = self.gamma * out + x
TSA_dtype(x) == x

\* a mutation of the attention step: the result is not cast back
block_tsa_dtype_uncast(use_attention, x) ==
    IF use_attention THEN TSA_dtype(to_dtype(x, "float32")) ELSE x

\* if self.use_attention: ori_type = x.dtype;
\* x = self.tsa(x.to(torch.float32)).to(ori_type)
block_tsa_dtype(use_attention, x) ==
    IF use_attention THEN to_dtype(TSA_dtype(to_dtype(x, "float32")), x) ELSE x

\* the input of the main layers: self.input(...) in the first block,
\* x.to(dtype=dtype, ...) otherwise
block_input_dtype(block, x_in, dtype) ==
    IF block.in_channels = 0 THEN GenInput_dtype(dtype) ELSE to_dtype(x_in, dtype)

\* the main layers: conv1, or skip, conv0, conv1 and y.add_(x), or conv0
\* and conv1
block_main_dtype(block, x) ==
    IF block.in_channels = 0 THEN SynthesisLayer_dtype(x)
    ELSE IF block.architecture = "resnet"
    THEN add_dtype(Conv2dLayer_dtype(x), SynthesisLayer_dtype(SynthesisLayer_dtype(x)))
    ELSE SynthesisLayer_dtype(SynthesisLayer_dtype(x))

\* the ToRGB part: img is upsampled if it is not None; y = self.torgb(x, ...);
\* y = y.to(dtype=torch.float32, ...); img = img.add_(y) if img is not None
\* else y
block_img_dtype(block, img_in, x) ==
    IF ~block_has_torgb(block.architecture, block.is_last)
    THEN (IF img_in = "none" THEN "none" ELSE upsample2d_dtype(img_in))
    ELSE IF img_in = "none" THEN to_dtype(ToRGBLayer_dtype(x), "float32")
    ELSE add_dtype(upsample2d_dtype(img_in), to_dtype(ToRGBLayer_dtype(x), "float32"))

\* assert x.dtype == dtype; assert img is None or img.dtype == torch.float32
block_dtype_asserts(dtype, x, img) ==
    IF x # dtype THEN "AssertionError"
    ELSE IF ~(img = "none" \/ img = "float32") THEN "AssertionError"
    ELSE "none"

\* the dtypes of one SynthesisBlock.forward call: x_main is x after the
\* main layers, tsa_in the dtype of the tensor handed to self.tsa
block_dtypes(block, use_attention, dtype, x_main, img) ==
    [err |-> block_dtype_asserts(dtype, block_tsa_dtype(use_attention, x_main), img),
     dtype |-> dtype,
     x_main |-> x_main,
     tsa_in |-> IF use_attention THEN to_dtype(x_main, "float32") ELSE "none",
     x |-> block_tsa_dtype(use_attention, x_main),
     img |-> img]

SynthesisBlock_forward_dtypes(block, use_attention, x_in, img_in, force_fp32) ==
    block_dtypes(
        block, use_attention, block_dtype(block, force_fp32),
        block_main_dtype(block, block_input_dtype(block, x_in, block_dtype(block, force_fp32))),
        block_img_dtype(
            block, img_in,
            block_tsa_dtype(
                use_attention,
                block_main_dtype(block, block_input_dtype(block, x_in, block_dtype(block, force_fp32))))))

BlkDtypeInit ==
    \E cfg \in BlockCfgs, res \in BlockResolutions, is_last \in BOOLEAN, use_fp16 \in BOOLEAN, use_attention \in BOOLEAN :
        blk = [pc |-> "built", cfg |-> cfg,
               block |-> BlockBuilt(cfg, res, is_last, use_fp16, TRUE),
               use_attention |-> use_attention,
               force_fp32 |-> FALSE, x_in |-> "none", img_in |-> "none",
               dt |-> [err |-> "none", dtype |-> "none", x_main |-> "none",
                       tsa_in |-> "none", x |-> "none", img |-> "none"]]

\* block(x, img, ws, ms=ms, force_fp32=force_fp32): x is None for the first
\* block and a tensor otherwise
BlockDtypeForward ==
    /\ blk.pc = "built"
    /\ \E force_fp32 \in BOOLEAN, x_in \in Dtypes, img_in \in ImgDtypeArgs :
         /\ blk.block.in_channels = 0 => x_in = "float32"
         /\ blk' = [blk EXCEPT
                      !.pc = "done", !.force_fp32 = force_fp32,
                      !.x_in = IF blk.block.in_channels = 0 THEN "none" ELSE x_in,
                      !.img_in = img_in,
                      !.dt = SynthesisBlock_forward_dtypes(
                                 blk.block, blk.use_attention,
                                 IF blk.block.in_channels = 0 THEN "none" ELSE x_in,
                                 img_in, force_fp32)]
    /\ UNCHANGED <<chn, mbstd, mal, mc, syn, lyr, dsc>>

InitBlockDtype ==
    /\ BlkDtypeInit
    /\ chn = Off /\ mbstd = Off /\ mal = Off /\ mc = Off /\ syn = Off /\ lyr = Off /\ dsc = Off

NextBlockDtype == BlockDtypeForward

SpecBlockDtype == InitBlockDtype /\ [][NextBlockDtype]_vars

\* C21: a call whose incoming img is None or float32, as every block
\* returns it, passes the two closing assertions for every use_fp16,
\* force_fp32, use_attention and architecture: the returned feature map has
\* the working dtype (float16 iff use_fp16 and not force_fp32), the returned
\* image is None or float32, and the attention step ran on a float32 tensor
\* and gave back the dtype the feature map had before it.
C21_DtypesAtReturn ==
    (blk.pc = "done" /\ blk.img_in \in {"none", "float32"}) =>
        /\ blk.dt.err = "none"
        /\ blk.dt.x = (IF blk.block.use_fp16 /\ ~blk.force_fp32
                       THEN "float16" ELSE "float32")
        /\ blk.dt.img \in {"none", "float32"}
        /\ (blk.dt.img = "none")
             = (blk.img_in = "none" /\ ~blk.block.is_last
                /\ blk.block.architecture # "skip")
        /\ blk.use_attention => (blk.dt.tsa_in = "float32" /\ blk.dt.x = blk.dt.x_main)
        /\ ~blk.use_attention => blk.dt.tsa_in = "none"

\* a half-precision 'skip' block with attention returned a float16 feature
\* map and a float32 image from a float32 feature map and image
C21_Witness ==
    /\ blk.pc = "done"
    /\ blk.block.use_fp16 /\ ~blk.force_fp32 /\ blk.use_attention
    /\ blk.block.architecture = "skip" /\ blk.block.in_channels # 0
    /\ blk.x_in = "float32" /\ blk.img_in = "float32"
    /\ blk.dt.err = "none"
    /\ blk.dt.x = "float16" /\ blk.dt.tsa_in = "float32" /\ blk.dt.img = "float32"

\* force_fp32 overrides use_fp16
C21_WitnessForced ==
    /\ blk.pc = "done"
    /\ blk.block.use_fp16 /\ blk.force_fp32 /\ blk.block.architecture = "resnet"
    /\ blk.x_in = "float16"
    /\ blk.dt.err = "none" /\ blk.dt.x = "float32"

\* a float16 image handed in by the caller stays float16 through the
\* in-place sum and fails the last assertion
C21_WitnessHalfImg ==
    /\ blk.pc = "done"
    /\ blk.img_in = "float16"
    /\ blk.dt.err = "AssertionError"


(***************************************************************************)
(* Discriminator.forward on shapes: the blocks are built with the channel  *)
(* counts of Discriminator.__init__, then one forward runs them in order,  *)
(* folding the frames into the channels at the block of resolution         *)
(* cfg.concat_res.                                                         *)
(***************************************************************************)
MaxDiscBatch == 2

\* the configurations of the forward model: cfg.concat_res is 0 (no block)
\* or the resolution of one of the blocks
DiscFwdCfgs ==
    {cfg \in [img_resolution : Resolutions,
              architecture : {"orig", "skip", "resnet"},
              channel_base : {channel_base_default},
              concat_res : {0} \cup (Resolutions \ {4}),
              num_frames_div_factor : {1, 2},
              motion_diff : BOOLEAN] :
        cfg.concat_res <= cfg.img_resolution}

\* out_channels of the block of resolution res in Discriminator.__init__
disc_out_channels(cfg, res) ==
    IF res \div 2 = cfg.concat_res
    THEN channels_dict(res \div 2, cfg.channel_base, channel_max_default)
            \div cfg.num_frames_div_factor
    ELSE channels_dict(res \div 2, cfg.channel_base, channel_max_default)

\* the attributes of a DiscriminatorBlock that its forward reads
DiscriminatorBlock_channels(in_channels, tmp_channels, out_channels, resolution, architecture) ==
    [in_channels |-> in_channels, tmp_channels |-> tmp_channels,
     out_channels |-> out_channels, resolution |-> resolution,
     img_channels |-> ImgChannels, architecture |-> architecture,
     conv0_in_channels |-> IF in_channels > 0 THEN in_channels ELSE tmp_channels]

\* the blocks of Discriminator.__init__, one per resolution in
\* self.block_resolutions
disc_blocks(cfg) ==
    [k \in 1..Len(disc_block_resolutions(cfg.img_resolution)) |->
        DiscriminatorBlock_channels(
            disc_in_channels(cfg, disc_block_resolutions(cfg.img_resolution)[k]),
            channels_dict(disc_block_resolutions(cfg.img_resolution)[k],
                          cfg.channel_base, channel_max_default),
            disc_out_channels(cfg, disc_block_resolutions(cfg.img_resolution)[k]),
            disc_block_resolutions(cfg.img_resolution)[k],
            cfg.architecture)]

\* Conv2dLayer(in_channels, out_channels, down=down).forward on a shape
Conv2dLayer_forward(x, in_channels, out_channels, down) ==
    IF x.err # "none" THEN x
    ELSE IF Len(x.shape) # 4 \/ x.shape[2] # in_channels THEN ShapeErr("RuntimeError")
    ELSE ShapeOk(<<x.shape[1], out_channels, x.shape[3] \div down, x.shape[4] \div down>>)

DiscBlockErr(kind) == [err |-> kind, x |-> NoneV, img |-> NoneV]

\* the main layers of DiscriminatorBlock.forward on the input x, a shape
\* result: self.skip for 'resnet', then conv0 and conv1 (down=2)
disc_block_main(block, x, img) ==
    IF x.err # "none" THEN DiscBlockErr(x.err)
    \* y = self.skip(x, gain=np.sqrt(0.5)) ... x = y.add_(x)
    ELSE IF block.architecture = "resnet"
            /\ Conv2dLayer_forward(x, block.conv0_in_channels, block.out_channels, 2).err
               # "none"
    THEN DiscBlockErr("RuntimeError")
    ELSE IF Conv2dLayer_forward(
                Conv2dLayer_forward(x, block.conv0_in_channels, block.tmp_channels, 1),
                block.tmp_channels, block.out_channels, 2).err # "none"
    THEN DiscBlockErr("RuntimeError")
    ELSE [err |-> "none",
          x |-> Some(Conv2dLayer_forward(
                        Conv2dLayer_forward(x, block.conv0_in_channels,
                                            block.tmp_channels, 1),
                        block.tmp_channels, block.out_channels, 2).shape),
          img |-> img]

\* img = upfirdn2d.downsample2d(img, ...) if self.architecture == 'skip'
\* else None
disc_block_img_out(block, img) ==
    IF block.architecture = "skip"
    THEN Some(<<img[1], img[2], img[3] \div 2, img[4] \div 2>>)
    ELSE NoneV

\* the FromRGB part: y = self.fromrgb(img); x = x + y if x is not None
\* else y
disc_block_fromrgb(block, x, img) ==
    IF img.none THEN DiscBlockErr("AttributeError")
    ELSE IF ~assert_shape(img.v, <<-1, block.img_channels, block.resolution,
                                   block.resolution>>)
    THEN DiscBlockErr("AssertionError")
    ELSE disc_block_main(
            block,
            IF x.none
            THEN Conv2dLayer_forward(ShapeOk(img.v), block.img_channels,
                                     block.tmp_channels, 1)
            ELSE then_broadcast(x.v,
                                Conv2dLayer_forward(ShapeOk(img.v), block.img_channels,
                                                    block.tmp_channels, 1)),
            disc_block_img_out(block, img.v))

\* DiscriminatorBlock.forward(x, img): x and img optional shapes
DiscriminatorBlock_forward(block, x, img) ==
    IF ~x.none /\ ~assert_shape(x.v, <<-1, block.in_channels, block.resolution,
                                       block.resolution>>)
    THEN DiscBlockErr("AssertionError")
    ELSE IF block.in_channels = 0 \/ block.architecture = "skip"
    THEN disc_block_fromrgb(block, x, img)
    ELSE IF x.none THEN DiscBlockErr("AttributeError")
    ELSE disc_block_main(block, ShapeOk(x.v), img)

\* x = x.view(t.shape[0], -1, *x.shape[1:]);
\* x = x.view(x.shape[0], -1, *x.shape[3:])
disc_fold_frames(x, n) ==
    IF reshape(x, <<n, -1, x[2], x[3], x[4]>>).err # "none"
    THEN ShapeErr("RuntimeError")
    ELSE reshape(x, <<n, -1, x[3], x[4]>>)

\* the images after the motion_diff part of Discriminator.forward: every
\* video's T frames followed by its T cyclic differences
disc_motion_diff(img, T) == <<2 * img[1], img[2], img[3], img[4]>>

DscFwdInit ==
    \E cfg \in DiscFwdCfgs :
        dsc = [pc |-> "built", cfg |-> cfg,
               block_resolutions |-> disc_block_resolutions(cfg.img_resolution),
               blocks |-> disc_blocks(cfg),
               N |-> 0, T |-> 0, img |-> NoneV, x |-> NoneV, k |-> 0,
               folds |-> <<>>, err |-> "none"]

\* Discriminator.forward(img, c, t) is entered with t of shape
\* (N, num_frames_per_video) and img of N * num_frames_per_video images;
\* the two assertions on img and t pass
DiscCall ==
    /\ dsc.pc = "built"
    /\ \E N \in 1..MaxDiscBatch :
         dsc' = [dsc EXCEPT
                   !.pc = "prepare", !.N = N, !.T = NumFramesPerVideo,
                   !.img = Some(<<N * NumFramesPerVideo, ImgChannels,
                                  dsc.cfg.img_resolution, dsc.cfg.img_resolution>>)]
    /\ UNCHANGED <<chn, mbstd, mal, mc, syn, blk, lyr>>

\* the motion_diff part, then x = None
DiscPrepare ==
    /\ dsc.pc = "prepare"
    /\ dsc' = [dsc EXCEPT
                 !.pc = "blocks", !.k = 1, !.x = NoneV,
                 !.img = IF dsc.cfg.motion_diff
                         THEN Some(disc_motion_diff(dsc.img.v, dsc.T))
                         ELSE @]
    /\ UNCHANGED <<chn, mbstd, mal, mc, syn, blk, lyr>>

\* the record of the folding at the block of resolution concat_res
DiscFold(block, x, folded) ==
    [resolution |-> block.resolution, absent |-> x.none,
     err |-> IF x.none THEN "AttributeError" ELSE folded.err,
     channels |-> IF x.none \/ folded.err # "none" THEN 0 ELSE folded.shape[2],
     in_channels |-> block.in_channels]

\* the state after the block of an iteration was called on x
DiscBlockRun(d, r) ==
    IF r.err # "none" THEN [d EXCEPT !.pc = "done", !.err = r.err]
    ELSE [d EXCEPT !.k = @ + 1, !.x = r.x, !.img = r.img]

\* one iteration of the loop over self.block_resolutions at the block of
\* resolution concat_res: the frames are folded, then the block is called
DiscRunConcatBlock ==
    /\ dsc.pc = "blocks"
    /\ dsc.k <= Len(dsc.blocks)
    /\ dsc.block_resolutions[dsc.k] = dsc.cfg.concat_res
    /\ LET block == dsc.blocks[dsc.k]
           folded == IF dsc.x.none THEN ShapeErr("AttributeError")
                     ELSE disc_fold_frames(dsc.x.v, dsc.N)
           d == [dsc EXCEPT !.folds = Append(@, DiscFold(block, dsc.x, folded))]
       IN dsc' = IF folded.err # "none"
                 THEN [d EXCEPT !.pc = "done", !.err = folded.err]
                 ELSE DiscBlockRun(d, DiscriminatorBlock_forward(
                                          block, Some(folded.shape), dsc.img))
    /\ UNCHANGED <<chn, mbstd, mal, mc, syn, blk, lyr>>

\* one iteration of the loop at any other block
DiscRunBlock ==
    /\ dsc.pc = "blocks"
    /\ dsc.k <= Len(dsc.blocks)
    /\ dsc.block_resolutions[dsc.k] # dsc.cfg.concat_res
    /\ dsc' = DiscBlockRun(dsc, DiscriminatorBlock_forward(dsc.blocks[dsc.k],
                                                           dsc.x, dsc.img))
    /\ UNCHANGED <<chn, mbstd, mal, mc, syn, blk, lyr>>

\* self.b4(x, img, cmap, motion): the epilogue's assertion on x
DiscRunEpilogue ==
    /\ dsc.pc = "blocks"
    /\ dsc.k > Len(dsc.blocks)
    /\ dsc' = [dsc EXCEPT
                 !.pc = "done",
                 !.err = IF dsc.x.none THEN "AttributeError"
                         ELSE IF ~assert_shape(
                                    dsc.x.v,
                                    <<-1, channels_dict(4, dsc.cfg.channel_base,
                                                        channel_max_default), 4, 4>>)
                         THEN "AssertionError"
                         ELSE "none"]
    /\ UNCHANGED <<chn, mbstd, mal, mc, syn, blk, lyr>>

InitDiscFwd ==
    /\ DscFwdInit
    /\ chn = Off /\ mbstd = Off /\ mal = Off /\ mc = Off /\ syn = Off /\ blk = Off /\ lyr = Off

NextDiscFwd ==
    \/ DiscCall
    \/ DiscPrepare
    \/ DiscRunConcatBlock
    \/ DiscRunBlock
    \/ DiscRunEpilogue

SpecDiscFwd == InitDiscFwd /\ [][NextDiscFwd]_vars

\* C23: whenever forward comes to the block of resolution concat_res, the
\* feature map is present and, once its frames are folded into its
\* channels, has the in_channels the block was constructed with.
C23_FoldMatchesInChannels ==
    (dsc.pc \in {"blocks", "done"}) =>
        \A i \in DOMAIN dsc.folds :
            /\ ~dsc.folds[i].absent
            /\ dsc.folds[i].err = "none"
            /\ dsc.folds[i].channels = dsc.folds[i].in_channels

\* below the first block the folding gives the block its in_channels, with
\* and without motion_diff
DiscFoldBelowTopMatches ==
    (dsc.pc \in {"blocks", "done"}) =>
        \A i \in DOMAIN dsc.folds :
            dsc.folds[i].resolution < dsc.cfg.img_resolution =>
                /\ ~dsc.folds[i].absent
                /\ dsc.folds[i].err = "none"
                /\ dsc.folds[i].channels = dsc.folds[i].in_channels
                /\ dsc.folds[i].in_channels
                     = disc_out_channels(dsc.cfg, 2 * dsc.folds[i].resolution)
                         * NumFramesPerVideo * (IF dsc.cfg.motion_diff THEN 2 ELSE 1)

\* a forward with concat_res below img_resolution and motion_diff returned
DiscFoldReturned ==
    /\ dsc.pc = "done" /\ dsc.err = "none"
    /\ dsc.cfg.motion_diff /\ dsc.cfg.num_frames_div_factor = 2
    /\ Len(dsc.folds) = 1
    /\ dsc.folds[1].channels = dsc.folds[1].in_channels

\* concat_res = img_resolution: the first block is the folding block and
\* there is no feature map yet
DiscFoldAtTop ==
    /\ dsc.pc = "done" /\ dsc.err = "AttributeError"
    /\ dsc.cfg.concat_res = dsc.cfg.img_resolution
    /\ Len(dsc.folds) = 1 /\ dsc.folds[1].absent

====
